---- MODULE Spec2Model ----
(***************************************************************************)
(* Payment-intent reconciliation of POST /api/pagment                      *)
(* (src/app/api/pagment/route.ts): pricing, coupon evaluation, minimum     *)
(* floor, idempotency key, local/gateway dedup, cancellation guard and     *)
(* gateway create.                                                          *)
(*                                                                         *)
(* Money: BRL amounts (JavaScript numbers) are carried in mills            *)
(* (1/1000 BRL) so that toCents really rounds; cents are integers.         *)
(* Hashes (sha256) are carried as the tuple that is hashed: two hashes     *)
(* are equal exactly when their seeds are equal.                           *)
(***************************************************************************)
EXTENDS Integers, Sequences, FiniteSets, TLC

(***************************************************************************)
(* Bounds of the model                                                     *)
(***************************************************************************)
MaxRequests == 3
MaxPayments == 2
MaxTicks == 1
\* largest retries argument of an mpFetch call
MaxRetries == 3
\* poll requests of one payment that may be unanswered at a time
MaxInFlight == 2
\* last instant of the session clock, in units of the session lifetime
MaxSessNow == 3
\* last instant of the coupon clock, in epoch seconds
MaxCupNow == 2
\* uses of a coupon row that claims may record
MaxUses == 1
\* the rate limiter's clock stops advancing at this instant, in ms
MaxRateMs == 7500
\* times one state value may pass the callback's state check in a run
MaxAccepted == 2
\* re-price requests the checkout component sends in a run
MaxRefresh == 3

(***************************************************************************)
(* Program constants                                                       *)
(***************************************************************************)
Plans == {"starter", "pro", "premium"}
Billings == {"monthly", "annual"}
Methods == {"card", "pix", "boleto"}

\* PLAN_PRICES, BRL per month, in mills
PLAN_PRICES ==
  [monthly |-> [starter |-> 14900, pro |-> 19900, premium |-> 22990],
   annual  |-> [starter |-> 12490, pro |-> 16590, premium |-> 20790]]

TEST_COUPON_CODE == "DEVS"
\* 0.01 BRL in mills
TEST_COUPON_TARGET_TOTAL == 10
\* default of MP_MIN_PIX_AMOUNT / MP_MIN_BOLETO_AMOUNT: "1.00" BRL in mills
DEFAULT_MIN_AMOUNT == 1000
\* INTENT_DEDUPE_TTL_SECONDS default
INTENT_DEDUPE_TTL_SECONDS == 120
\* MP_SEARCH_MAX_RESULTS default
MP_SEARCH_MAX_RESULTS == 20

\* Number("garbage"): the value Number.isFinite rejects
NaN == -999999
IsFinite(x) == x # NaN

Max(a, b) == IF a >= b THEN a ELSE b
Min(a, b) == IF a <= b THEN a ELSE b

\* seconds that one clock step advances Date.now()
TickSeconds == 121

(***************************************************************************)
(* Pure helpers                                                            *)
(***************************************************************************)
\* Math.max(0, Math.round((v + EPSILON) * 100)), v in mills
toCents(v) == IF v <= 0 THEN 0 ELSE (v + 5) \div 10

\* Number((cents / 100).toFixed(2)), result in mills
centsToNumber(cents) == cents * 10

\* Number(x.toFixed(2)) on a non-negative amount in mills
ToFixed2(v) == ((v + 5) \div 10) * 10

\* billingMonths that charges one month for an annual plan
billingMonths_mut(billing) == 1

billingMonths(billing) == IF billing = "annual" THEN 12 ELSE 1

\* Math.round(x / 100) for x >= 0 (round half up)
RoundDiv100(x) == (x + 50) \div 100

\* trim, upper-case, strip characters outside [A-Z0-9_-]
normalizeCouponCode(raw) ==
  CASE raw = "half" -> "HALF"
    [] raw = " devs " -> "DEVS"
    [] raw = "!!" -> ""
    [] OTHER -> raw

normalizeMethod(m) == IF m \in Methods THEN m ELSE ""
normalizePlan(p) == IF p \in Plans THEN p ELSE ""
normalizeBilling(b) == IF b \in Billings THEN b ELSE ""

(***************************************************************************)
(* Coupons                                                                 *)
(***************************************************************************)

\* one entry of COUPONS_JSON; value is a percentage for "percent" and mills
\* otherwise; 0 stands for an absent starts_at / ends_at / min_total and {}
\* for an absent plans / billings list
RawCoupon(code, type, value) ==
  [code |-> code, active |-> TRUE, type |-> type, value |-> value,
   starts_at |-> 0, ends_at |-> 0, min_total |-> 0,
   plans |-> {}, billings |-> {}]

loadCoupons(testEnabled, raw) ==
  LET keep(c) == /\ normalizeCouponCode(c.code) # ""
                 /\ c.type \in ({"percent", "fixed", "target_total"})
                 /\ IsFinite(c.value) /\ c.value > 0
      norm(c) == [c EXCEPT !.code = normalizeCouponCode(c.code)]
      kept == SelectSeq(raw, keep)
      env == [i \in 1..Len(kept) |-> norm(kept[i])]
  IN (IF testEnabled
        THEN <<RawCoupon(TEST_COUPON_CODE, "target_total", TEST_COUPON_TARGET_TOTAL)>>
        ELSE <<>>) \o env

\* coupons.find((c) => c.code === code): index of the first match, 0 if none
FindCoupon(defs, code) ==
  IF \E i \in 1..Len(defs) : defs[i].code = code
    THEN CHOOSE i \in 1..Len(defs) :
           /\ defs[i].code = code
           /\ \A j \in 1..(i - 1) : defs[j].code # code
    ELSE 0

CouponErr(msg) == [ok |-> FALSE, message |-> msg, applied |-> FALSE, code |-> "",
                   discountCents |-> 0, finalCents |-> 0, type |-> ""]

\* CouponFinalCents without the one-cent floor
CouponFinalCents_nofloor(def, baseCents) ==
  CASE def.type = "percent" ->
         baseCents - RoundDiv100(baseCents * Min(100, Max(0, def.value)))
    [] def.type = "fixed" -> baseCents - toCents(def.value)
    [] def.type = "target_total" -> Min(baseCents, toCents(def.value))
    [] OTHER -> baseCents

\* CouponFinalCents whose target_total is not capped by the base price
CouponFinalCents_mut(def, baseCents) ==
  LET raw == CASE def.type = "percent" ->
                    baseCents - RoundDiv100(baseCents * Min(100, Max(0, def.value)))
               [] def.type = "fixed" -> baseCents - toCents(def.value)
               [] def.type = "target_total" -> toCents(def.value)
               [] OTHER -> baseCents
  IN Max(raw, 1)

CouponFinalCents(def, baseCents) ==
  LET raw == CASE def.type = "percent" ->
                    baseCents - RoundDiv100(baseCents * Min(100, Max(0, def.value)))
               [] def.type = "fixed" -> baseCents - toCents(def.value)
               [] def.type = "target_total" -> Min(baseCents, toCents(def.value))
               [] OTHER -> baseCents
  IN Max(raw, 1)

evaluateCoupon(defs, code, plan, billing, baseCents, nowMs) ==
  IF code = ""
    THEN [ok |-> TRUE, message |-> "", applied |-> FALSE, code |-> "",
          discountCents |-> 0, finalCents |-> baseCents, type |-> ""]
    ELSE
      LET i == FindCoupon(defs, code) IN
      IF i = 0 THEN CouponErr("invalid") ELSE
      LET def == defs[i]
          minTotalCents == IF def.min_total # 0 THEN toCents(def.min_total) ELSE 0
          finalCents == CouponFinalCents(def, baseCents)
      IN
      IF def.active = FALSE THEN CouponErr("invalid")
      ELSE IF def.starts_at # 0 /\ nowMs < def.starts_at THEN CouponErr("not_started")
      ELSE IF def.ends_at # 0 /\ nowMs > def.ends_at THEN CouponErr("expired")
      ELSE IF def.plans # {} /\ plan \notin def.plans THEN CouponErr("plan")
      ELSE IF def.billings # {} /\ billing \notin def.billings THEN CouponErr("billing")
      ELSE IF minTotalCents # 0 /\ baseCents < minTotalCents THEN CouponErr("min_total")
      ELSE [ok |-> TRUE, message |-> "", applied |-> TRUE, code |-> code,
            discountCents |-> Max(0, baseCents - finalCents),
            finalCents |-> finalCents, type |-> def.type]

(***************************************************************************)
(* Minimum per method and the pricing section of POST                      *)
(***************************************************************************)
\* getMinFinalCentsForMethod that reads the other method's configured minimum
getMinFinalCentsForMethod_mut(method, minPix, minBoleto) ==
  LET min == CASE method = "pix" -> IF IsFinite(minBoleto) THEN minBoleto ELSE 1000
               [] method = "boleto" -> IF IsFinite(minPix) THEN minPix ELSE 1000
               [] OTHER -> 1000
  IN Max(1, toCents(Max(10, min)))

getMinFinalCentsForMethod(method, minPix, minBoleto) ==
  LET min == CASE method = "pix" -> IF IsFinite(minPix) THEN minPix ELSE 1000
               [] method = "boleto" -> IF IsFinite(minBoleto) THEN minBoleto ELSE 1000
               [] OTHER -> 1000
  IN Max(1, toCents(Max(10, min)))

\* base total in cents: toCents(Number((unitAmount * months).toFixed(2)))
BaseCentsOf(plan, billing) ==
  toCents(ToFixed2(PLAN_PRICES[billing][plan] * billingMonths(billing)))

\* lines 1622-1651: coupon evaluation, minimum floor, pricing record
PricingOf(c, method, plan, billing, couponCode, nowMs) ==
  LET baseCents == BaseCentsOf(plan, billing)
      ev == evaluateCoupon(loadCoupons(c.testCoupon, c.rawCoupons),
                           couponCode, plan, billing, baseCents, nowMs)
      minFinalCents == getMinFinalCentsForMethod(method, c.minPix, c.minBoleto)
      floored == ev.finalCents < minFinalCents
      finalCents == IF floored THEN minFinalCents ELSE ev.finalCents
      discountCents == IF floored THEN Max(0, baseCents - finalCents)
                                  ELSE ev.discountCents
  IN [ok |-> ev.ok,
      message |-> ev.message,
      baseCents |-> baseCents,
      couponFinalCents |-> ev.finalCents,
      couponDiscountCents |-> ev.discountCents,
      minFinalCents |-> minFinalCents,
      base |-> centsToNumber(baseCents),
      discount |-> centsToNumber(discountCents),
      total |-> centsToNumber(finalCents),
      coupon |-> IF ev.applied THEN couponCode ELSE "",
      type |-> IF ev.applied THEN ev.type ELSE "",
      unit |-> ToFixed2(PLAN_PRICES[billing][plan]),
      months |-> billingMonths(billing)]

\* sha256 of method|plan|billing|total|coupon|months|unit, as its seed
computePricingFingerprint(method, plan, billing, total, coupon, months, unit) ==
  <<method, plan, billing, total, coupon, months, unit>>

(***************************************************************************)
(* Request normalisation                                                   *)
(***************************************************************************)
\* order ids: 0 absent, -1 malformed (null), positive = a well-formed id
normalizeOrderId(v) == IF v > 0 THEN v ELSE 0

normalizeRevision(v) ==
  IF ~IsFinite(v) THEN 0
  ELSE IF v < 0 THEN 0
  ELSE IF v > 1000000 THEN 1000000
  ELSE v

\* payment ids: the digits of the raw value; 0 stands for the empty string,
\* -1 for a raw value without digits
normalizePaymentId(v) == IF v > 0 THEN v ELSE 0

(***************************************************************************)
(* Payment status predicates                                               *)
(***************************************************************************)
\* isCancellableStatus that only excludes approved and cancelled
isCancellableStatus_mut(s) == s \notin {"", "approved", "cancelled"}

isCancellableStatus(s) ==
  IF s = "" THEN FALSE
  ELSE IF s = "approved" THEN FALSE
  ELSE IF s = "cancelled" THEN FALSE
  ELSE s \in {"pending", "in_process", "authorized", "in_mediation"}

\* isFinalStatus that also counts a pending payment as final
isFinalStatus_mut(s) ==
  s \in {"approved", "rejected", "cancelled", "refunded", "charged_back", "pending"}

isFinalStatus(s) ==
  s \in {"approved", "rejected", "cancelled", "refunded", "charged_back"}

(***************************************************************************)
(* State                                                                   *)
(***************************************************************************)
VARIABLES
  cfg,          \* process environment: minimums and coupons
  clients,      \* the request bodies the clients of this run send
  now,          \* Date.now() in ms
  payments,     \* the gateway's payments, in creation order (index = id)
  intentStore,  \* intentStore map: intent key -> intent
  reqs,         \* POST handlers in flight: position and locals of each
  nreq,         \* number of requests received
  quote,        \* the last priced request and its pricing (pricing runs)
  mpf,          \* one mpFetch call: loop position, attempts, last outcome
  poll,         \* the checkout component: mount state, interval, polls
  sess,         \* one GET /api/me: the cookies received and the answer
  cup,          \* coupon tables, one validation call and one pricing call
  rate,         \* rateStore, the clock and the last rateLimit answer
  oauth,        \* one browser's Discord login: cookies, position, answer
  ui            \* the checkout component: order, revision, statuses

vars == <<cfg, clients, now, payments, intentStore, reqs, nreq, quote,
          mpf, poll, sess, cup, rate, oauth, ui>>

\* the state of POST /api/pagment and of the other components
core == <<cfg, clients, now, payments, intentStore, reqs, nreq, quote>>
aux == <<mpf, poll, sess, cup, rate, oauth, ui>>

\* requests the runtime serves concurrently
Handlers == {"h1", "h2"}

\* stableIdempotencyKey salted per request
stableIdempotencyKey_mut(seed) == <<seed, nreq>>

\* sha256 of the seed, as the seed
stableIdempotencyKey(seed) == seed

NoCancelInfo ==
  [present |-> FALSE, ok |-> FALSE, skipped |-> FALSE, reason |-> "",
   replace_payment_id |-> 0, oldStatus |-> ""]

CancelInfo(pid, ok, skipped, reason, oldStatus) ==
  [present |-> TRUE, ok |-> ok, skipped |-> skipped, reason |-> reason,
   replace_payment_id |-> pid, oldStatus |-> oldStatus]

NoBody == [method |-> "", plan |-> "", billing |-> "", coupon |-> "",
           order_id |-> 0, revision |-> 0, cpf |-> "", email |-> "",
           replace_payment_id |-> 0, cancel_previous |-> FALSE,
           valid |-> FALSE, payerOk |-> FALSE, awaited |-> FALSE]

NoPricing == [ok |-> FALSE, message |-> "", baseCents |-> 0,
              couponFinalCents |-> 0, couponDiscountCents |-> 0,
              minFinalCents |-> 0, base |-> 0,
              discount |-> 0, total |-> 0, coupon |-> "", type |-> "",
              unit |-> 0, months |-> 0]

NoQuote == [method |-> "", plan |-> "", billing |-> "", coupon |-> "",
            pricing |-> NoPricing, transaction_amount |-> 0]

\* answer is the gateway's answer to the lookup the handler made last
\* ("fail", "ok" for a search, or the status a GET reported); checked is the
\* status a dedup answer was based on; statusAtStart is the gateway status the
\* payment named by replace_payment_id had when a call with cancel_previous
\* arrived; cancelSent, cancelSentStatus, createSent and createdNew record
\* what the handler sent; createError is the error payment.create threw
IdleReq ==
  [pc |-> "idle", body |-> NoBody,
   order_id |-> 0, revision |-> 0,
   replace_payment_id |-> 0, cancel_previous |-> FALSE,
   pricing |-> NoPricing, fingerprint |-> <<>>, idemKey |-> <<>>,
   intentPid |-> 0, answer |-> "", checked |-> "", statusAtStart |-> "",
   canCancel |-> FALSE, oldStatus |-> "",
   cancelSent |-> FALSE, cancelSentStatus |-> "", createSent |-> FALSE,
   createdNew |-> FALSE, createError |-> ([mpStatus |-> NaN, msg |-> "", codes |-> {}]),
   cancelInfo |-> NoCancelInfo, resp |-> ([http |-> 0, ok |-> FALSE, deduped |-> FALSE,
           id |-> 0, via |-> "", cancelInfo |-> NoCancelInfo])]

\* default environment: no COUPONS_JSON beyond one percent coupon, default
\* minimums, test coupon enabled (NODE_ENV # production)
DefaultCfg ==
  [minPix |-> DEFAULT_MIN_AMOUNT, minBoleto |-> DEFAULT_MIN_AMOUNT,
   testCoupon |-> TRUE,
   rawCoupons |-> <<RawCoupon("HALF", "percent", 50)>>]

(***************************************************************************)
(* intentStore                                                             *)
(***************************************************************************)
makeIntentKey(order_id, revision, method) == <<order_id, revision, method>>

ttlMs == Max(10, INTENT_DEDUPE_TTL_SECONDS) * 1000

\* IntentExpired with twice the lifetime
IntentExpired_mut(it, nowMs) == nowMs - it.createdAt > 2 * ttlMs

IntentExpired(it, nowMs) == nowMs - it.createdAt > ttlMs

\* getIntent: does the read return an intent?
HasIntent(store, key, nowMs) ==
  key \in DOMAIN store /\ ~IntentExpired(store[key], nowMs)

\* getIntent: the store after the read (an expired entry is deleted)
StoreAfterGet(store, key, nowMs) ==
  IF key \in DOMAIN store /\ IntentExpired(store[key], nowMs)
    THEN [k \in (DOMAIN store) \ {key} |-> store[k]]
    ELSE store

setIntent(store, key, payment_id, fingerprint, status, nowMs) ==
  [k \in (DOMAIN store) \cup {key} |->
     IF k = key
       THEN [payment_id |-> payment_id, createdAt |-> nowMs,
             fingerprint |-> fingerprint, status |-> status]
       ELSE store[k]]

(***************************************************************************)
(* Gateway (Mercado Pago) as seen through mpFetch and the SDK              *)
(***************************************************************************)
PaymentIds == 1..Len(payments)

\* statuses the gateway moves a payment through
GwSuccessors(s) ==
  CASE s = "pending" -> {"approved", "expired"}
    [] OTHER -> {}

\* PUT status=cancelled is accepted only for a payment not yet settled
GwCancels(s) == s \in {"pending", "in_process"}

\* GET /v1/payments/:id answers with the payment only if it exists
GetOutcomes(pid) == IF pid \in PaymentIds THEN {"ok", "fail"} ELSE {"fail"}

RECURSIVE DescFrom(_, _)
DescFrom(n, ext) ==
  IF n = 0 THEN <<>>
  ELSE (IF payments[n].external_reference = ext THEN <<payments[n]>> ELSE <<>>)
       \o DescFrom(n - 1, ext)

mpSearchByExternalReference(ext) ==
  LET all == DescFrom(Len(payments), ext)
  IN SubSeq(all, 1, Min(Len(all), (Max(1, Min(50, MP_SEARCH_MAX_RESULTS)))))

paymentMethodId(method) == IF method = "pix" THEN "pix" ELSE "bolbradesco"

\* the predicate of results.find(...) in the search dedup
\* IsCandidate without the pricing-fingerprint filter
IsCandidate_mut(p, method, fingerprint) ==
  /\ p.status # "cancelled"
  /\ ~(method = "pix" /\ p.payment_method_id # "" /\ p.payment_method_id # "pix")
  /\ ~(method = "boleto" /\ p.payment_method_id # ""
         /\ p.payment_method_id # "bolbradesco")

IsCandidate(p, method, fingerprint) ==
  /\ p.status # "cancelled"
  /\ ~(p.fingerprint # <<>> /\ p.fingerprint # fingerprint)
  /\ ~(method = "pix" /\ p.payment_method_id # "" /\ p.payment_method_id # "pix")
  /\ ~(method = "boleto" /\ p.payment_method_id # ""
         /\ p.payment_method_id # "bolbradesco")

\* results.find(...): index of the first candidate, 0 if none
FindCandidate(results, method, fingerprint) ==
  IF \E i \in 1..Len(results) : IsCandidate(results[i], method, fingerprint)
    THEN CHOOSE i \in 1..Len(results) :
           /\ IsCandidate(results[i], method, fingerprint)
           /\ \A j \in 1..(i - 1) : ~IsCandidate(results[j], method, fingerprint)
    ELSE 0

\* payment.create with X-Idempotency-Key: a key already used returns the
\* payment created with it
PaymentWithKey(key) ==
  IF \E i \in PaymentIds : payments[i].idemKey = key
    THEN CHOOSE i \in PaymentIds : payments[i].idemKey = key
    ELSE 0

(***************************************************************************)
(* POST /api/pagment                                                       *)
(***************************************************************************)
\* no response is waiting to be sent: sending one touches nothing the other
\* handlers or the gateway read, so it is taken first
NoneDone == \A h \in Handlers : reqs[h].pc # "done"

Respond(rec, http, ok, deduped, id, via, cancelInfo) ==
  [rec EXCEPT !.pc = "done",
              !.cancelInfo = cancelInfo,
              !.resp = [http |-> http, ok |-> ok, deduped |-> deduped,
                        id |-> id, via |-> via, cancelInfo |-> cancelInfo]]

\* lines 1988-2049 up to the first await: where the handler goes when
\* neither dedup path returned
\* AfterDedup that enters the cancellation guard without cancel_previous
AfterDedup_mut(rec) ==
  IF rec.replace_payment_id # 0
    THEN [rec EXCEPT !.pc = "guard", !.canCancel = TRUE, !.oldStatus = ""]
    ELSE [rec EXCEPT !.pc = "create"]

AfterDedup(rec) ==
  IF rec.cancel_previous /\ rec.replace_payment_id # 0
    THEN [rec EXCEPT !.pc = "guard", !.canCancel = TRUE, !.oldStatus = ""]
    ELSE IF rec.replace_payment_id # 0
      THEN [rec EXCEPT !.pc = "create",
              !.cancelInfo = CancelInfo(rec.replace_payment_id, TRUE, TRUE,
                                        "not_requested", "")]
      ELSE [rec EXCEPT !.pc = "create"]

\* lines 1522-1830: the handler from its entry to its first gateway call
Start(h, body, uuid) ==
  /\ NoneDone
  /\ reqs[h].pc = "idle"
  /\ nreq < MaxRequests
  /\ body.awaited => \A g \in Handlers : reqs[g].pc = "idle"
  /\ nreq' = nreq + 1
  /\ LET method == normalizeMethod(body.method)
         plan == normalizePlan(body.plan)
         billing == normalizeBilling(body.billing)
         couponCode == normalizeCouponCode(body.coupon)
         rec0 == [IdleReq EXCEPT !.body = body,
                                 !.cancel_previous = (body.cancel_previous = TRUE)]
     IN
     IF ~body.valid \/ method = "" \/ plan = "" \/ billing = ""
       THEN /\ reqs' = [reqs EXCEPT ![h] =
                          Respond(rec0, 400, FALSE, FALSE, 0, "invalid", NoCancelInfo)]
            /\ UNCHANGED intentStore
       ELSE
         LET pricing == PricingOf(cfg, method, plan, billing, couponCode, now)
             fingerprint == computePricingFingerprint(method, plan, billing,
                              pricing.total, pricing.coupon, pricing.months,
                              pricing.unit)
             incomingOrder == normalizeOrderId(body.order_id)
             order_id == IF incomingOrder # 0 THEN incomingOrder ELSE uuid
             revision == normalizeRevision(body.revision)
             external_reference == <<order_id, revision>>
             idemKey == stableIdempotencyKey(
                          <<"create", external_reference, method, fingerprint,
                            body.cpf, body.email>>)
             intentKey == makeIntentKey(order_id, revision, method)
             rec1 == [rec0 EXCEPT !.pricing = pricing,
                                  !.fingerprint = fingerprint,
                                  !.order_id = order_id,
                                  !.revision = revision,
                                  !.replace_payment_id =
                                     normalizePaymentId(body.replace_payment_id),
                                  !.idemKey = idemKey,
                                  !.statusAtStart =
                                     IF /\ body.cancel_previous = TRUE
                                        /\ body.replace_payment_id \in PaymentIds
                                       THEN payments[body.replace_payment_id].status
                                       ELSE ""]
         IN
         IF ~pricing.ok
           THEN /\ reqs' = [reqs EXCEPT ![h] =
                    Respond([rec0 EXCEPT !.pricing = pricing], 422, FALSE, FALSE,
                            0, "coupon", NoCancelInfo)]
                /\ UNCHANGED intentStore
         ELSE IF ~body.payerOk
           THEN /\ reqs' = [reqs EXCEPT ![h] =
                    Respond([rec0 EXCEPT !.pricing = pricing], 400, FALSE, FALSE,
                            0, "payer", NoCancelInfo)]
                /\ UNCHANGED intentStore
         ELSE IF method = "card"
           THEN /\ reqs' = [reqs EXCEPT ![h] =
                    Respond([rec0 EXCEPT !.pricing = pricing], 422, FALSE, FALSE,
                            0, "card", NoCancelInfo)]
                /\ UNCHANGED intentStore
         ELSE
           /\ intentStore' = StoreAfterGet(intentStore, intentKey, now)
           /\ IF /\ HasIntent(intentStore, intentKey, now)
                 /\ intentStore[intentKey].fingerprint = fingerprint
                THEN reqs' = [reqs EXCEPT ![h] =
                       [rec1 EXCEPT !.pc = "local",
                                    !.intentPid = intentStore[intentKey].payment_id]]
                ELSE reqs' = [reqs EXCEPT ![h] = [rec1 EXCEPT !.pc = "search"]]
  /\ UNCHANGED <<cfg, clients, now, payments, quote, aux>>

\* lines 1831-1896: mpGetPaymentById(existingIntent.payment_id) has answered
LocalCheck(h) ==
  /\ NoneDone
  /\ reqs[h].pc = "local"
  /\ \E out \in GetOutcomes(reqs[h].intentPid) :
       LET rec == reqs[h]
           st == IF out = "ok" THEN payments[rec.intentPid].status ELSE ""
           seen == [rec EXCEPT !.answer = IF out = "ok" THEN st ELSE "fail"]
       IN
       IF out = "ok" /\ ~isFinalStatus(st)
         THEN reqs' = [reqs EXCEPT ![h] =
                Respond([seen EXCEPT !.checked = st], 200, TRUE, TRUE,
                        payments[rec.intentPid].id, "local",
                        CancelInfo(rec.intentPid, TRUE, TRUE, "dedupe_local", ""))]
         ELSE reqs' = [reqs EXCEPT ![h] = [seen EXCEPT !.pc = "search"]]
  /\ UNCHANGED <<cfg, clients, now, payments, intentStore, nreq, quote, aux>>

\* lines 1898-1986 and the synchronous part of 1988-2049: the gateway
\* search has answered
Search(h) ==
  /\ NoneDone
  /\ reqs[h].pc = "search"
  /\ \E searchOk \in BOOLEAN :
       LET rec == reqs[h]
           method == rec.body.method
           results == IF searchOk
                        THEN mpSearchByExternalReference(<<rec.order_id, rec.revision>>)
                        ELSE <<>>
           ci == FindCandidate(results, method, rec.fingerprint)
       IN
       IF searchOk /\ ci # 0 /\ ~isFinalStatus(results[ci].status)
         THEN /\ reqs' = [reqs EXCEPT ![h] =
                   Respond([rec EXCEPT !.checked = results[ci].status,
                                       !.answer = "ok"],
                           200, TRUE, TRUE, results[ci].id, "search",
                           CancelInfo(results[ci].id, TRUE, TRUE, "dedupe_mp", ""))]
              /\ intentStore' = setIntent(intentStore,
                                  makeIntentKey(rec.order_id, rec.revision, method),
                                  results[ci].id, rec.fingerprint,
                                  results[ci].status, now)
         ELSE /\ reqs' = [reqs EXCEPT ![h] =
                   AfterDedup([rec EXCEPT !.answer =
                                 IF searchOk THEN "ok" ELSE "fail"])]
              /\ UNCHANGED intentStore
  /\ UNCHANGED <<cfg, clients, now, payments, nreq, quote, aux>>

\* lines 1994-2038: mpGetPaymentById(replace_payment_id) has answered
Guard(h) ==
  /\ NoneDone
  /\ reqs[h].pc = "guard"
  /\ \E out \in GetOutcomes(reqs[h].replace_payment_id) :
       LET pid == reqs[h].replace_payment_id
           rec == [reqs[h] EXCEPT !.answer =
                     IF out = "ok" THEN payments[pid].status ELSE "fail"]
       IN
       IF out = "ok"
         THEN
           LET oldStatus == payments[pid].status
               oldOrderId == payments[pid].order_id
           IN
           IF oldOrderId # 0 /\ oldOrderId # rec.order_id
             THEN reqs' = [reqs EXCEPT ![h] =
                    [rec EXCEPT !.pc = "create", !.canCancel = FALSE,
                                !.oldStatus = oldStatus,
                                !.cancelInfo = CancelInfo(pid, FALSE, TRUE,
                                                 "other_order", oldStatus)]]
           ELSE IF oldStatus = "approved"
             THEN reqs' = [reqs EXCEPT ![h] =
                    [rec EXCEPT !.pc = "create", !.canCancel = FALSE,
                                !.oldStatus = oldStatus,
                                !.cancelInfo = CancelInfo(pid, FALSE, TRUE,
                                                 "approved", oldStatus)]]
           ELSE IF oldStatus # "" /\ ~isCancellableStatus(oldStatus)
             THEN reqs' = [reqs EXCEPT ![h] =
                    [rec EXCEPT !.pc = "create", !.canCancel = FALSE,
                                !.oldStatus = oldStatus,
                                !.cancelInfo = CancelInfo(pid, TRUE, TRUE,
                                                 "not_cancellable", oldStatus)]]
           ELSE reqs' = [reqs EXCEPT ![h] =
                    [rec EXCEPT !.pc = "cancelGet", !.oldStatus = oldStatus]]
         ELSE reqs' = [reqs EXCEPT ![h] = [rec EXCEPT !.pc = "cancelGet"]]
  /\ UNCHANGED <<cfg, clients, now, payments, intentStore, nreq, quote, aux>>

\* tryCancelPayment, lines 889-907: its own status lookup has answered
CancelGet(h) ==
  /\ NoneDone
  /\ reqs[h].pc = "cancelGet"
  /\ \E out \in GetOutcomes(reqs[h].replace_payment_id) :
       LET pid == reqs[h].replace_payment_id
           curStatus == IF out = "ok" THEN payments[pid].status ELSE ""
           rec == [reqs[h] EXCEPT !.answer =
                     IF out = "ok" THEN curStatus ELSE "fail"]
       IN
       IF curStatus # "" /\ ~isCancellableStatus(curStatus)
         THEN reqs' = [reqs EXCEPT ![h] =
                [rec EXCEPT !.pc = "create",
                            !.cancelInfo = CancelInfo(pid, TRUE, TRUE,
                                             "status", rec.oldStatus)]]
         ELSE reqs' = [reqs EXCEPT ![h] = [rec EXCEPT !.pc = "cancelPut"]]
  /\ UNCHANGED <<cfg, clients, now, payments, intentStore, nreq, quote, aux>>

\* tryCancelPayment, lines 909-936: PUT {status: "cancelled"} is sent and
\* answered; the gateway cancels only a payment it has not settled
CancelPut(h) ==
  /\ NoneDone
  /\ reqs[h].pc = "cancelPut"
  /\ LET pid == reqs[h].replace_payment_id
         exists == pid \in PaymentIds
         rec == [reqs[h] EXCEPT !.cancelSent = TRUE,
                                !.cancelSentStatus =
                                   IF exists THEN payments[pid].status ELSE ""]
     IN
     \E putOk \in BOOLEAN :
       IF putOk /\ exists /\ GwCancels(payments[pid].status)
         THEN /\ payments' = [payments EXCEPT ![pid].status = "cancelled"]
              /\ reqs' = [reqs EXCEPT ![h] =
                   [rec EXCEPT !.pc = "create",
                               !.cancelInfo = CancelInfo(pid, TRUE, FALSE, "",
                                                rec.oldStatus)]]
         ELSE /\ UNCHANGED payments
              /\ reqs' = [reqs EXCEPT ![h] =
                   [rec EXCEPT !.pc = "create",
                               !.cancelInfo = CancelInfo(pid, FALSE, FALSE, "",
                                                rec.oldStatus)]]
  /\ UNCHANGED <<cfg, clients, now, intentStore, nreq, quote, aux>>

\* errors payment.create may throw: SDK status, message class, cause codes
CreateErrors ==
  { [mpStatus |-> NaN, msg |-> "without key enabled", codes |-> {13253}],
    [mpStatus |-> 403, msg |-> "policy returned unauthorized", codes |-> {}],
    [mpStatus |-> 400, msg |-> "bad request", codes |-> {}],
    [mpStatus |-> NaN, msg |-> "network", codes |-> {}] }

\* lines 2104-2166: HTTP status of the answer to a failed create
CreateErrorHttp(err) ==
  IF 13253 \in err.codes \/ err.msg = "without key enabled" THEN 422
  ELSE IF (err.mpStatus = 403 /\ err.msg = "policy returned unauthorized")
          \/ err.msg = "blocked_by" \/ err.msg = "PolicyAgent" THEN 403
  ELSE IF IsFinite(err.mpStatus) /\ err.mpStatus >= 400 /\ err.mpStatus <= 599
    THEN err.mpStatus
  ELSE 500

\* lines 2051-2232: payment.create succeeded; the intent is registered and
\* the created payment returned
CreateOk(h) ==
  /\ NoneDone
  /\ reqs[h].pc = "create"
  /\ LET prior == PaymentWithKey(reqs[h].idemKey)
         rec == [reqs[h] EXCEPT !.createSent = TRUE,
                                !.createdNew = (prior = 0)]
         method == rec.body.method
         pid == IF prior # 0 THEN prior ELSE Len(payments) + 1
     IN
     /\ prior # 0 \/ Len(payments) < MaxPayments
     /\ payments' =
          IF prior # 0 THEN payments
          ELSE Append(payments,
                 [id |-> pid, status |-> "pending",
                  external_reference |-> <<rec.order_id, rec.revision>>,
                  payment_method_id |-> paymentMethodId(method),
                  fingerprint |-> rec.fingerprint,
                  idemKey |-> rec.idemKey,
                  order_id |-> rec.order_id,
                  transaction_amount |-> rec.pricing.total,
                  body |-> rec.body])
     /\ intentStore' = setIntent(intentStore,
                         makeIntentKey(rec.order_id, rec.revision, method),
                         pid, rec.fingerprint, payments'[pid].status, now)
     /\ reqs' = [reqs EXCEPT ![h] =
          Respond(rec, 200, TRUE, FALSE, pid, "created", rec.cancelInfo)]
  /\ UNCHANGED <<cfg, clients, now, nreq, quote, aux>>

\* lines 2103-2167: payment.create threw
CreateFail(h) ==
  /\ NoneDone
  /\ reqs[h].pc = "create"
  /\ \E err \in CreateErrors :
       reqs' = [reqs EXCEPT ![h] =
          Respond([reqs[h] EXCEPT !.createSent = TRUE, !.createError = err],
                  CreateErrorHttp(err), FALSE, FALSE, 0, "create_error",
                  NoCancelInfo)]
  /\ UNCHANGED <<cfg, clients, now, payments, intentStore, nreq, quote, aux>>

\* the response has been sent; the handler's locals are gone
Deliver(h) ==
  /\ reqs[h].pc = "done"
  /\ reqs' = [reqs EXCEPT ![h] = IdleReq]
  /\ UNCHANGED <<cfg, clients, now, payments, intentStore, nreq, quote, aux>>

(***************************************************************************)
(* Environment: the gateway settles payments, time passes                  *)
(***************************************************************************)
GatewayStep(p) ==
  /\ NoneDone
  /\ p \in PaymentIds
  /\ \E s \in GwSuccessors(payments[p].status) :
       payments' = [payments EXCEPT ![p].status = s]
  /\ UNCHANGED <<cfg, clients, now, intentStore, reqs, nreq, quote, aux>>

Tick ==
  /\ \A h \in Handlers : reqs[h].pc = "idle"
  /\ now < MaxTicks * TickSeconds * 1000
  /\ now' = now + TickSeconds * 1000
  /\ UNCHANGED <<cfg, clients, payments, intentStore, reqs, nreq, quote, aux>>

(***************************************************************************)
(* Requests the clients send                                               *)
(***************************************************************************)
\* awaited: the client sends the request only while no call is in flight
Body(method, coupon, order_id, revision, email, replace, cancel) ==
  [method |-> method, plan |-> "pro", billing |-> "monthly", coupon |-> coupon,
   order_id |-> order_id, revision |-> revision, cpf |-> "52998224725",
   email |-> email, replace_payment_id |-> replace, cancel_previous |-> cancel,
   valid |-> TRUE, payerOk |-> TRUE, awaited |-> FALSE]

Scenarios ==
  {({ Body("pix", "", 1, 0, "a@x.io", 0, FALSE), Body("pix", "half", 1, 0, "a@x.io", 1,
          FALSE), Body("pix", "", 1, 0, "b@x.io", 0, FALSE) }), ({ Body("pix", "", 0, NaN,
          "a@x.io", 0, FALSE) }), ({ Body("pix", "", 1, 1, "a@x.io", 1, TRUE) }),
          ({ Body("card", "", 0, NaN, "a@x.io", 0, FALSE), Body("boleto", "", 1, 0,
          "a@x.io", -1, FALSE), Body("pix", "NOPE", 1, 0, "a@x.io", 0, FALSE), Body("debit",
          "", 1, 0, "a@x.io", 0, FALSE), [Body("pix", "", 1, 0, "a@x.io", 0,
          FALSE) EXCEPT !.payerOk = FALSE], [Body("pix", "", 1, 0, "a@x.io", 0,
          FALSE) EXCEPT !.valid = FALSE] }), ({ [Body("pix", "", 1, 0, "a@x.io", 0,
          FALSE) EXCEPT !.awaited = TRUE], [Body("pix", "", 2, 0, "a@x.io", 1,
          TRUE) EXCEPT !.awaited = TRUE] })}

(***************************************************************************)
(* Specification of the payment endpoint                                   *)
(***************************************************************************)
NoFetch == [pc |-> "none", retries |-> 0, attempt |-> 0, sent |-> 0,
            last |-> "", backoff |-> 0, result |-> ""]
\* payments the checkout component may be handed by POST /api/pagment
PollIds == {1, 2}
NoPoll == [pc |-> "none", mounted |-> FALSE, interval |-> 0,
           actionState |-> "idle", inflight |-> [p \in PollIds |-> 0],
           srv |-> [p \in PollIds |-> "pending"], liveStatus |-> "",
           terminalSeen |-> {}]
\* an absent (empty) discord_user cookie, and an absent discord_user_sig
NoPayload == [shape |-> "", discord_id |-> 0, exp_ms |-> NaN]
NoSig == [kind |-> "", of |-> NoPayload]
NoSess == [pc |-> "none", now |-> 0, user |-> NoPayload, sig |-> NoSig,
           last |-> "", resp |-> ([present |-> FALSE, user |-> NoPayload, cleared |-> FALSE,
                   rawUser |-> NoPayload, rawSig |-> NoSig, at |-> 0])]
\* no row of gift_coupons / coupons for the code (maybeSingle gives null)
NoRow == [present |-> FALSE, active |-> FALSE, owner |-> 0,
          starts_at_epoch |-> 0, expires_at_epoch |-> 0,
          max_uses |-> 0, uses_count |-> 0]
\* a request that carries no identity at all
Anonymous == [cookieId |-> 0, signed |-> FALSE, queryId |-> 0, bodyId |-> 0]
NoCupResult == [present |-> FALSE, verb |-> "", caller |-> Anonymous,
                code |-> "", discordId |-> 0, ok |-> FALSE, valid |-> FALSE,
                source |-> "", message |-> "", consulted |-> {}]
NoCupPay == [present |-> FALSE, ok |-> FALSE, applied |-> FALSE]
NoCup == [pc |-> "none", code |-> "", gift |-> NoRow, coupon |-> NoRow,
          now |-> 0, result |-> NoCupResult, pay |-> NoCupPay]

\* the components a run does not exercise stay as constructed
\* rateStore.get(key) of a key never seen, and no rateLimit answer
NoRateEntry == [count |-> 0, resetAt |-> 0]
NoRate == [pc |-> "none", maxPostCfg |-> 0, now |-> 0,
           store |-> [k \in ({ <<"POST", "10.0.0.1">>, <<"GET", "unknown">> }) |-> NoRateEntry],
           answer |-> ([present |-> FALSE, kind |-> "", ip |-> "", ok |-> FALSE, http |-> 0,
                   retryAfterSec |-> 0, at |-> 0, before |-> NoRateEntry])]
OAuthStates == {1, 2}
NoOAuth == [pc |-> "none", at |-> "", stateCookie |-> 0, session |-> 0,
            params |-> ([code |-> "", state |-> 0, error |-> FALSE, genuine |-> FALSE]),
                    hpc |-> "none",
            accepted |-> [v \in OAuthStates |-> 0],
            failed |-> FALSE, last |-> "", lastCleared |-> FALSE]
\* the checkout component before it is opened; sent is the history of the
\* revisions of its re-price requests, inflight the ones not yet answered
NoUi == [pc |-> "none", devAllowed |-> FALSE, method |-> "card",
         pixStep |-> "form", pixPaymentId |-> 0, orderRevision |-> 0,
         liveStatus |-> "", localFinalStatus |-> "", actionState |-> "idle",
         sent |-> <<>>, inflight |-> {}, srvApproved |-> FALSE]
\* the components added last are idle
RestIdle == rate = NoRate /\ oauth = NoOAuth /\ ui = NoUi
AuxIdle ==
  /\ mpf = NoFetch /\ poll = NoPoll /\ sess = NoSess /\ cup = NoCup
  /\ RestIdle

CoreIdle ==
  /\ cfg = DefaultCfg
  /\ clients = {}
  /\ now = 0
  /\ payments = <<>>
  /\ intentStore = << >>
  /\ reqs = [h \in Handlers |-> IdleReq]
  /\ nreq = 0
  /\ quote = NoQuote

Init ==
  /\ cfg = DefaultCfg
  /\ clients \in Scenarios
  /\ now = 0
  /\ payments = <<>>
  /\ intentStore = << >>
  /\ reqs = [h \in Handlers |-> IdleReq]
  /\ nreq = 0
  /\ quote = NoQuote
  /\ AuxIdle

Next ==
  \/ \E h \in Handlers, body \in clients, uuid \in ({101, 102}) : Start(h, body, uuid)
  \/ \E h \in Handlers : LocalCheck(h)
  \/ \E h \in Handlers : Search(h)
  \/ \E h \in Handlers : Guard(h)
  \/ \E h \in Handlers : CancelGet(h)
  \/ \E h \in Handlers : CancelPut(h)
  \/ \E h \in Handlers : CreateOk(h)
  \/ \E h \in Handlers : CreateFail(h)
  \/ \E h \in Handlers : Deliver(h)
  \/ \E p \in 1..MaxPayments : GatewayStep(p)
  \/ Tick

Spec == Init /\ [][Next]_vars

(***************************************************************************)
(* Specification of the pricing section alone: every plan, billing,        *)
(* method and coupon under varied environments                             *)
(***************************************************************************)

RestrictedCoupon ==
  [RawCoupon("VIP", "percent", 10) EXCEPT
     !.plans = {"pro"}, !.billings = {"annual"}, !.min_total = 150000]

InitPricing ==
  /\ \E mp \in ({NaN, -5000, 0, 4, 10, 1000, 20000, 250000}), mb \in ({1000, 30000}), t \in BOOLEAN,
        c \in ({ RawCoupon("half", "percent", 50), RawCoupon("HALF", "percent", 100),
                RawCoupon("HALF", "percent", 150), RawCoupon("HALF", "percent", 33),
                RawCoupon("HALF", "percent", 0), RawCoupon("HALF", "fixed", 5000),
                RawCoupon("HALF", "fixed", 4), RawCoupon("HALF", "fixed", 500000),
                RawCoupon("HALF", "target_total", 10), RawCoupon("HALF", "target_total", 4),
                RawCoupon("HALF", "target_total", 9990), RawCoupon("HALF", "target_total",
                999000), RawCoupon("HALF", "bogus", 10), RawCoupon("!!", "percent", 10),
                RawCoupon("DEVS", "percent", 10), [RawCoupon("HALF", "percent",
                10) EXCEPT !.active = FALSE], [RawCoupon("HALF", "percent",
                10) EXCEPT !.starts_at = 60000], [RawCoupon("HALF", "percent",
                10) EXCEPT !.ends_at = 60000], RestrictedCoupon }) :
       cfg = [minPix |-> mp, minBoleto |-> mb, testCoupon |-> t,
              rawCoupons |-> <<c>>]
  /\ clients = {}
  /\ now \in {0, TickSeconds * 1000}
  /\ payments = <<>>
  /\ intentStore = << >>
  /\ reqs = [h \in Handlers |-> IdleReq]
  /\ nreq = 0
  /\ quote = NoQuote
  /\ AuxIdle

\* lines 1571-1662 and the amount of line 2076
Quote(m, p, b, coupon) ==
  /\ quote = NoQuote
  /\ normalizeMethod(m) # "" /\ normalizePlan(p) # "" /\ normalizeBilling(b) # ""
  /\ LET pricing == PricingOf(cfg, m, p, b, normalizeCouponCode(coupon), now)
     IN quote' = [method |-> m, plan |-> p, billing |-> b, coupon |-> coupon,
                  pricing |-> pricing,
                  transaction_amount |-> IF pricing.ok THEN pricing.total ELSE 0]
  /\ UNCHANGED <<cfg, clients, now, payments, intentStore, reqs, nreq, aux>>

NextPricing ==
  \E m \in Methods, p \in Plans, b \in Billings, coupon \in ({"", "half", "HALF", " devs ",
          "VIP", "NOPE"}) :
    Quote(m, p, b, coupon)

SpecPricing == InitPricing /\ [][NextPricing]_vars

(***************************************************************************)
(* mpFetch (lines 544-641): one call                                       *)
(***************************************************************************)
MP_FETCH_RETRIES == 2
MP_FETCH_RETRY_BASE_MS == 250

\* retriable that also retries other non-OK statuses
retriable_mut(out) == out \in {"r429", "r5xx", "client"}

\* lines 605-606
retriable(out) == out \in {"r429", "r5xx"}

\* lines 608-612 and 625-627, in ms
backoffMs(ra, attempt, jitter) ==
  IF IsFinite(ra)
    THEN Max(200, ra * 1000)
    ELSE MP_FETCH_RETRY_BASE_MS * (1 + attempt) * (1 + attempt) + jitter

InitFetch ==
  /\ CoreIdle
  /\ poll = NoPoll /\ sess = NoSess /\ cup = NoCup
  /\ RestIdle
  /\ \E r \in ({NaN} \cup (-1..MaxRetries)) :
       mpf = [NoFetch EXCEPT !.pc = "call",
                             !.retries = IF IsFinite(r) THEN r
                                                        ELSE MP_FETCH_RETRIES]

\* line 574: the loop is entered when 0 <= retries, else line 628 returns
FetchEnter ==
  /\ mpf.pc = "call"
  /\ mpf' = IF 0 <= mpf.retries
              THEN [mpf EXCEPT !.pc = "attempt"]
              ELSE [mpf EXCEPT !.pc = "returned", !.result = "null"]
  /\ UNCHANGED <<core, poll, sess, cup, rate, oauth, ui>>

\* lines 575-626: one pass of the loop body
FetchAttempt(out, ra, jitter) ==
  /\ mpf.pc = "attempt"
  /\ LET m == [mpf EXCEPT !.sent = mpf.sent + 1, !.last = out]
         more == mpf.attempt < mpf.retries
     IN
     mpf' =
       IF out = "ok"
         THEN [m EXCEPT !.pc = "returned", !.result = "ok"]
       ELSE IF out = "neterr"
         THEN IF more
                THEN [m EXCEPT !.pc = "sleep",
                               !.backoff = backoffMs(NaN, mpf.attempt, jitter)]
                ELSE [m EXCEPT !.pc = "returned", !.result = "null"]
       ELSE IF retriable(out) /\ more
         THEN [m EXCEPT !.pc = "sleep",
                        !.backoff = backoffMs(ra, mpf.attempt, jitter)]
         ELSE [m EXCEPT !.pc = "returned", !.result = "http_error"]
  /\ UNCHANGED <<core, poll, sess, cup, rate, oauth, ui>>

\* sleep(backoff) is over: continue with attempt + 1
FetchWake ==
  /\ mpf.pc = "sleep"
  /\ mpf' = [mpf EXCEPT !.pc = "attempt", !.attempt = mpf.attempt + 1]
  /\ UNCHANGED <<core, poll, sess, cup, rate, oauth, ui>>

NextFetch ==
  \/ FetchEnter
  \/ \E out \in ({"ok", "client", "r429", "r5xx", "neterr"}), ra \in ({0, 2, NaN}),
          j \in ({0, 149}) :
       FetchAttempt(out, ra, j)
  \/ FetchWake

SpecFetch == InitFetch /\ [][NextFetch]_vars /\ WF_vars(NextFetch)

(***************************************************************************)
(* Checkout component (pay.tsx): status polling of one mounted instance    *)
(***************************************************************************)
\* isFinalStatus of the component, pay.tsx lines 1674-1678
clientIsFinalStatus(st) ==
  st \in {"approved", "rejected", "cancelled", "expired"}

InitPoll ==
  /\ CoreIdle
  /\ mpf = NoFetch /\ sess = NoSess /\ cup = NoCup
  /\ RestIdle
  /\ poll = [NoPoll EXCEPT !.pc = "open", !.mounted = TRUE]

\* the gateway moves a payment out of pending
PollServerChange(p, st) ==
  /\ poll.pc = "open"
  /\ poll.srv[p] = "pending"
  /\ clientIsFinalStatus(st)
  /\ poll' = [poll EXCEPT !.srv[p] = st]
  /\ UNCHANGED <<core, mpf, sess, cup, rate, oauth, ui>>

\* handlePrimaryAction on a failed status: resetFlowForRetry
PollRetry ==
  /\ poll.mounted
  /\ poll.liveStatus \in {"expired", "rejected", "cancelled"}
  /\ poll' = [poll EXCEPT !.liveStatus = "", !.interval = 0,
                          !.actionState = "idle"]
  /\ UNCHANGED <<core, mpf, sess, cup, rate, oauth, ui>>

\* handlePrimaryAction up to await createPayment(...)
PollClickCreate ==
  /\ poll.mounted
  /\ poll.actionState # "loading"
  /\ ~clientIsFinalStatus(poll.liveStatus)
  /\ poll' = [poll EXCEPT !.actionState = "loading"]
  /\ UNCHANGED <<core, mpf, sess, cup, rate, oauth, ui>>

\* createPayment resolves with payment id: startPollingPayment(id, kind)
PollCreateReturns(id) ==
  /\ poll.actionState = "loading"
  /\ poll' = [poll EXCEPT !.actionState = "success", !.interval = id,
                          !.liveStatus = ""]
  /\ UNCHANGED <<core, mpf, sess, cup, rate, oauth, ui>>

\* createPayment throws or returns no id
PollCreateFails ==
  /\ poll.actionState = "loading"
  /\ poll' = [poll EXCEPT !.actionState = "error"]
  /\ UNCHANGED <<core, mpf, sess, cup, rate, oauth, ui>>

\* the interval of pollRef fires: one GET for its payment
PollTick ==
  /\ poll.interval # 0
  /\ poll.inflight[poll.interval] < MaxInFlight
  /\ poll' = [poll EXCEPT !.inflight[poll.interval] = @ + 1]
  /\ UNCHANGED <<core, mpf, sess, cup, rate, oauth, ui>>

\* the rest of the interval callback, once the GET of payment p has answered
PollResponse(p, ans) ==
  /\ poll.inflight[p] > 0
  /\ LET got == [poll EXCEPT !.inflight[p] = @ - 1]
         st == poll.srv[p]
     IN
     poll' =
       IF ans = "denied" THEN [got EXCEPT !.interval = 0]
       ELSE IF ans = "error" THEN got
       ELSE IF clientIsFinalStatus(st)
         THEN [got EXCEPT !.liveStatus = st, !.interval = 0,
                          !.terminalSeen = @ \cup {p}]
         ELSE [got EXCEPT !.liveStatus = st]
  /\ UNCHANGED <<core, mpf, sess, cup, rate, oauth, ui>>

\* cleanup of the effect at lines 3485-3491
PollUnmount ==
  /\ poll.mounted
  /\ poll' = [poll EXCEPT !.mounted = FALSE, !.interval = 0]
  /\ UNCHANGED <<core, mpf, sess, cup, rate, oauth, ui>>

NextPoll ==
  \/ \E p \in PollIds, st \in ({"pending", "approved", "rejected", "cancelled",
          "expired"}) : PollServerChange(p, st)
  \/ PollRetry
  \/ PollClickCreate
  \/ \E id \in PollIds : PollCreateReturns(id)
  \/ PollCreateFails
  \/ PollTick
  \/ \E p \in PollIds, ans \in ({"denied", "error", "status"}) : PollResponse(p, ans)
  \/ PollUnmount

SpecPoll == InitPoll /\ [][NextPoll]_vars

(***************************************************************************)
(* Session cookies: OAuth callback and GET /api/me                         *)
(***************************************************************************)
DiscordIds == {1, 2}

\* hmacSign, callback/route.ts 70-73 and me/route.ts 49-52; SESSION_SECRET
\* falls back to DISCORD_CLIENT_SECRET, which the OAuth flow needs
hmacSign(data) == [kind |-> "hmac", of |-> data]

\* buildSessionCookie, callback/route.ts 75-94
buildSessionCookie(discordId, t) ==
  [shape |-> "object", discord_id |-> discordId, exp_ms |-> t + 1]

\* tryParseCookieObject, me/route.ts 30-47: typeof value === "object"
tryParseCookieObject(raw) == raw.shape \in {"object", "array"}

\* isExpired, me/route.ts 61-65
isExpired(obj, t) ==
  IF ~IsFinite(obj.exp_ms) \/ obj.exp_ms <= 0 THEN FALSE ELSE t > obj.exp_ms

InitSession ==
  /\ CoreIdle
  /\ mpf = NoFetch /\ poll = NoPoll /\ cup = NoCup
  /\ RestIdle
  /\ sess = [NoSess EXCEPT !.pc = "open", !.now = 1, !.last = "init"]

\* callback/route.ts 210-254: the signed session of Discord user id
SessCallback(id) ==
  /\ sess.pc = "open"
  /\ LET sessionJson == buildSessionCookie(id, sess.now)
     IN sess' = [sess EXCEPT !.user = sessionJson,
                             !.sig = hmacSign(sessionJson),
                             !.last = "callback"]
  /\ UNCHANGED <<core, mpf, poll, cup, rate, oauth, ui>>

\* the client sends cookies of its own making: any payload, with no
\* signature cookie, a made-up one, or the one it holds
SessClientSet(p, how) ==
  /\ sess.pc = "open"
  /\ LET sg == IF how = "none" THEN NoSig
               ELSE IF how = "forged" THEN ([kind |-> "forged", of |-> NoPayload])
               ELSE sess.sig
     IN sess' = [sess EXCEPT !.user = p, !.sig = sg, !.last = "client"]
  /\ UNCHANGED <<core, mpf, poll, cup, rate, oauth, ui>>

SessTick ==
  /\ sess.pc = "open"
  /\ sess.now < MaxSessNow
  /\ sess' = [sess EXCEPT !.now = @ + 1, !.last = "tick"]
  /\ UNCHANGED <<core, mpf, poll, cup, rate, oauth, ui>>

\* GET of me/route.ts 73-106 (the same checks open GET of part_002 92-130)
SessGetMe ==
  /\ sess.pc = "open"
  /\ LET rawUser == sess.user
         rawSig == sess.sig
         seen == [([present |-> FALSE, user |-> NoPayload, cleared |-> FALSE,
                 rawUser |-> NoPayload, rawSig |-> NoSig,
                 at |-> 0]) EXCEPT !.present = TRUE, !.rawUser = rawUser,
                                  !.rawSig = rawSig, !.at = sess.now]
         reject == [sess EXCEPT !.user = NoPayload, !.sig = NoSig,
                                !.last = "me",
                                !.resp = [seen EXCEPT !.cleared = TRUE]]
     IN
     sess' =
       IF rawUser = NoPayload
         THEN [sess EXCEPT !.last = "me", !.resp = seen]
       ELSE IF rawSig # NoSig /\ rawSig # hmacSign(rawUser) THEN reject
       ELSE IF ~tryParseCookieObject(rawUser) THEN reject
       ELSE IF isExpired(rawUser, sess.now) THEN reject
       ELSE [sess EXCEPT !.last = "me", !.resp = [seen EXCEPT !.user = rawUser]]
  /\ UNCHANGED <<core, mpf, poll, cup, rate, oauth, ui>>

NextSession ==
  \/ \E id \in DiscordIds : SessCallback(id)
  \/ \E p \in ({ [shape |-> sh, discord_id |-> d, exp_ms |-> e] : sh \in {"object"},
          d \in DiscordIds, e \in {NaN, 0, 1, MaxSessNow} } \cup { [shape |-> sh,
          discord_id |-> 0, exp_ms |-> NaN] : sh \in {"array",
          "scalar"} }) \cup {NoPayload},
        how \in {"none", "forged", "keep"} : SessClientSet(p, how)
  \/ SessTick
  \/ SessGetMe

SpecSession == InitSession /\ [][NextSession]_vars

(***************************************************************************)
(* /api/pagment/cupom: validation and claim of database coupons            *)
(***************************************************************************)
\* the Discord user a gift or exclusive coupon belongs to, and another user
CouponOwner == 1

\* requests of the validation endpoint: verb, caller, code as sent, and the
\* query that fails (if any)
CupRequest(verb, req, code, err) ==
  [verb |-> verb, caller |-> req, code |-> code, err |-> err]
CupRequests(code) ==
  { CupRequest("GET", req, code, "") : req \in {c \in ({ Anonymous,
          [Anonymous EXCEPT !.cookieId = CouponOwner, !.signed = TRUE],
          [Anonymous EXCEPT !.cookieId = 2, !.signed = TRUE],
          [Anonymous EXCEPT !.cookieId = CouponOwner],
          [Anonymous EXCEPT !.queryId = CouponOwner],
          [Anonymous EXCEPT !.bodyId = CouponOwner] }) : c.bodyId = 0} }
  \cup { CupRequest("POST", req, code, "") :
           req \in {c \in ({ Anonymous, [Anonymous EXCEPT !.cookieId = CouponOwner,
                   !.signed = TRUE], [Anonymous EXCEPT !.cookieId = 2, !.signed = TRUE],
                   [Anonymous EXCEPT !.cookieId = CouponOwner],
                   [Anonymous EXCEPT !.queryId = CouponOwner],
                   [Anonymous EXCEPT !.bodyId = CouponOwner] }) : c.bodyId # 0 \/ c.signed} }
  \cup { CupRequest("GET", Anonymous, "", ""),
         CupRequest("GET", [Anonymous EXCEPT !.cookieId = CouponOwner,
                                             !.signed = TRUE],
                    code, "gift_coupons"),
         CupRequest("GET", [Anonymous EXCEPT !.cookieId = CouponOwner,
                                             !.signed = TRUE],
                    code, "coupons") }

\* extractDiscordId, lines 49-63; 0 for null
extractDiscordId(req) ==
  IF req.cookieId # 0 THEN req.cookieId ELSE req.queryId

\* the identity each handler passes on: GET line 233, POST lines 251-252
HandlerDiscordId(verb, req) ==
  IF verb = "GET" THEN extractDiscordId(req)
  ELSE IF extractDiscordId(req) # 0 THEN extractDiscordId(req)
  ELSE req.bodyId

CupVerdict(valid, source, message, consulted) ==
  [ok |-> TRUE, valid |-> valid, source |-> source, message |-> message,
   consulted |-> consulted]

\* the checks on a row that exists: lines 88-141 (gift, always bound to its
\* discord_id) and lines 164-218 (general, bound when exclusive_discord_id)
RowVerdict(row, bound, discordId, t, source, consulted) ==
  IF ~row.active THEN CupVerdict(FALSE, "", "inactive", consulted)
  ELSE IF bound /\ discordId = 0
    THEN CupVerdict(FALSE, "", "session", consulted)
  ELSE IF bound /\ row.owner # discordId
    THEN CupVerdict(FALSE, "", "unavailable", consulted)
  ELSE IF row.starts_at_epoch # 0 /\ t < row.starts_at_epoch
    THEN CupVerdict(FALSE, "", "not_started", consulted)
  ELSE IF row.expires_at_epoch # 0 /\ t > row.expires_at_epoch
    THEN CupVerdict(FALSE, "", "expired", consulted)
  ELSE IF row.max_uses # 0 /\ row.uses_count >= row.max_uses
    THEN CupVerdict(FALSE, "", "no_uses", consulted)
  ELSE CupVerdict(TRUE, source, "", consulted)

\* giftDecides that lets an inactive gift row fall through to the general table
giftDecides_mut(gift) == gift.present /\ gift.active

\* line 87: if (gift)
giftDecides(gift) == gift.present

\* validateCouponOnly, lines 65-220; err names the query that fails
validateCouponOnly(code, discordId, gift, c, err, t) ==
  IF code = "" THEN CupVerdict(FALSE, "", "missing", {})
  ELSE IF err = "gift_coupons"
    THEN [CupVerdict(FALSE, "", "query", {"gift_coupons"}) EXCEPT !.ok = FALSE]
  ELSE IF giftDecides(gift)
    THEN RowVerdict(gift, TRUE, discordId, t, "gift_coupon", {"gift_coupons"})
  ELSE IF err = "coupons"
    THEN [CupVerdict(FALSE, "", "query", {"gift_coupons", "coupons"})
            EXCEPT !.ok = FALSE]
  ELSE IF ~c.present
    THEN CupVerdict(FALSE, "", "invalid", {"gift_coupons", "coupons"})
  ELSE RowVerdict(c, c.owner # 0, discordId, t, "coupon",
                  {"gift_coupons", "coupons"})

InitCoupon ==
  /\ CoreIdle
  /\ mpf = NoFetch /\ poll = NoPoll /\ sess = NoSess
  /\ RestIdle
  /\ \E code \in ({"HALF", "GIFT1"}), g \in ({ [present |-> TRUE, active |-> a,
          owner |-> CouponOwner, starts_at_epoch |-> w[1], expires_at_epoch |-> w[2],
          max_uses |-> m, uses_count |-> 0] : a \in BOOLEAN, w \in ({ <<0, 0>>, <<0, 1>> }),
          m \in {0, 1} }) \cup {NoRow},
        c \in ({ [present |-> TRUE, active |-> a, owner |-> o, starts_at_epoch |-> w[1],
                expires_at_epoch |-> w[2], max_uses |-> m,
                uses_count |-> 0] : a \in BOOLEAN, o \in {0, CouponOwner}, w \in ({ <<0,
                0>>, <<0, 1>> }), m \in {0, 1} }) \cup {NoRow} :
       cup = [NoCup EXCEPT !.pc = "open", !.code = code, !.gift = g,
                           !.coupon = c, !.now = 1]

\* GET, lines 223-237, and POST with action "validate", lines 240-259
CupValidate(rq) ==
  /\ cup.pc = "open"
  /\ rq.code \in {"", cup.code}
  /\ LET discordId == HandlerDiscordId(rq.verb, rq.caller)
         v == validateCouponOnly(rq.code, discordId, cup.gift, cup.coupon,
                                 rq.err, cup.now)
     IN cup' = [cup EXCEPT !.result =
                  [present |-> TRUE, verb |-> rq.verb, caller |-> rq.caller,
                   code |-> rq.code, discordId |-> discordId, ok |-> v.ok,
                   valid |-> v.valid, source |-> v.source,
                   message |-> v.message, consulted |-> v.consulted]]
  /\ UNCHANGED <<core, mpf, poll, sess, rate, oauth, ui>>

\* POST with action "claim", lines 261-284: claim_coupon consumes one use of
\* the row that decides for the code, or refuses
CupClaim(req, outcome) ==
  /\ cup.pc = "open"
  /\ LET discordId == HandlerDiscordId("POST", req)
         row == IF cup.gift.present THEN cup.gift ELSE cup.coupon
         free == row.present /\ (row.max_uses = 0 \/ row.uses_count < row.max_uses)
                             /\ row.uses_count < MaxUses
         used == [row EXCEPT !.uses_count = @ + 1]
     IN
     /\ discordId # 0
     /\ outcome = "claimed" => free
     /\ cup' = [cup EXCEPT
                  !.gift = IF outcome = "claimed" /\ cup.gift.present
                             THEN used ELSE @,
                  !.coupon = IF outcome = "claimed" /\ ~cup.gift.present
                               THEN used ELSE @,
                  !.result = NoCupResult,
                  !.pay = NoCupPay]
  /\ UNCHANGED <<core, mpf, poll, sess, rate, oauth, ui>>

\* the coupon step of POST /api/pagment (route.ts 1622-1632) for the same
\* code: evaluateCoupon over loadCoupons()
CupPay(plan, billing) ==
  /\ cup.pc = "open"
  /\ LET ev == evaluateCoupon(
                 loadCoupons(DefaultCfg.testCoupon, DefaultCfg.rawCoupons),
                 normalizeCouponCode(cup.code), plan, billing,
                 BaseCentsOf(plan, billing), cup.now * 1000)
     IN cup' = [cup EXCEPT !.pay = [present |-> TRUE, ok |-> ev.ok,
                                    applied |-> ev.ok /\ ev.applied]]
  /\ UNCHANGED <<core, mpf, poll, sess, rate, oauth, ui>>

CupTick ==
  /\ cup.pc = "open"
  /\ cup.now < MaxCupNow
  /\ cup' = [cup EXCEPT !.now = @ + 1, !.result = NoCupResult,
                        !.pay = NoCupPay]
  /\ UNCHANGED <<core, mpf, poll, sess, rate, oauth, ui>>

NextCoupon ==
  \/ \E code \in ({"HALF", "GIFT1"}) : \E rq \in CupRequests(code) : CupValidate(rq)
  \/ \E req \in ({ Anonymous, [Anonymous EXCEPT !.cookieId = CouponOwner, !.signed = TRUE],
          [Anonymous EXCEPT !.cookieId = 2, !.signed = TRUE],
          [Anonymous EXCEPT !.cookieId = CouponOwner],
          [Anonymous EXCEPT !.queryId = CouponOwner],
          [Anonymous EXCEPT !.bodyId = CouponOwner] }), outcome \in {"claimed", "refused"} :
       CupClaim(req, outcome)
  \/ \E plan \in Plans, billing \in Billings : CupPay(plan, billing)
  \/ CupTick

SpecCoupon == InitCoupon /\ [][NextCoupon]_vars

(***************************************************************************)
(* rateLimit (lines 91-134) and its check at the head of POST and GET      *)
(***************************************************************************)
RATE_LIMIT_WINDOW_SECONDS == 1
RATE_LIMIT_MAX_GET == 1

rateMax(kind, maxPostCfg) ==
  IF kind = "POST" THEN Max(5, maxPostCfg) ELSE Max(10, RATE_LIMIT_MAX_GET)

\* Math.ceil(x / 1000) for x >= 0
CeilDiv1000(x) == (x + 999) \div 1000

\* line 112: !cur || now > cur.resetAt
windowExpired(cur, t) == cur = NoRateEntry \/ t > cur.resetAt

InitRate ==
  /\ CoreIdle
  /\ mpf = NoFetch /\ poll = NoPoll /\ sess = NoSess /\ cup = NoCup
  /\ oauth = NoOAuth /\ ui = NoUi
  /\ \E m \in ({1, 6}) :
       rate = [NoRate EXCEPT !.pc = "open", !.maxPostCfg = m]

\* rateLimit(req, kind) and the 429 return of lines 1525-1532 / 1383-1389
RateRequest(kind, ip) ==
  /\ rate.pc = "open"
  /\ <<kind, ip>> \in ({ <<"POST", "10.0.0.1">>, <<"GET", "unknown">> })
  /\ LET key == <<kind, ip>>
         t == rate.now
         max == rateMax(kind, rate.maxPostCfg)
         cur == rate.store[key]
         seen == [([present |-> FALSE, kind |-> "", ip |-> "", ok |-> FALSE, http |-> 0,
                 retryAfterSec |-> 0, at |-> 0,
                 before |-> NoRateEntry]) EXCEPT !.present = TRUE, !.kind = kind,
                                      !.ip = ip, !.at = t, !.before = cur]
     IN
     rate' =
       IF windowExpired(cur, t)
         THEN [rate EXCEPT
                 !.store[key] = [count |-> 1, resetAt |-> t + (Max(5,
                         RATE_LIMIT_WINDOW_SECONDS) * 1000)],
                 !.answer = [seen EXCEPT !.ok = TRUE, !.http = 200]]
       ELSE IF cur.count >= max
         THEN [rate EXCEPT
                 !.answer = [seen EXCEPT !.http = 429,
                               !.retryAfterSec = CeilDiv1000(cur.resetAt - t)]]
       ELSE [rate EXCEPT
               !.store[key].count = cur.count + 1,
               !.answer = [seen EXCEPT !.ok = TRUE, !.http = 200]]
  /\ UNCHANGED <<core, mpf, poll, sess, cup, oauth, ui>>

RateTick(d) ==
  /\ rate.pc = "open"
  /\ rate.now < MaxRateMs
  /\ rate' = [rate EXCEPT !.now = @ + d]
  /\ UNCHANGED <<core, mpf, poll, sess, cup, oauth, ui>>

NextRate ==
  \/ \E kind \in ({"POST", "GET"}), ip \in ({"10.0.0.1", "unknown"}) : RateRequest(kind, ip)
  \/ \E d \in ({2500}) : RateTick(d)

SpecRate == InitRate /\ [][NextRate]_vars

(***************************************************************************)
(* Discord login: GET /api/auth/discord, the callback, the login page      *)
(***************************************************************************)

\* callback/route.ts 152-153
stateCheckPasses(storedState, returnedState) ==
  storedState # 0 /\ returnedState # 0 /\ storedState = returnedState

\* the browser holds no session; it may hold a discord_oauth_state cookie
InitOAuth ==
  /\ CoreIdle
  /\ mpf = NoFetch /\ poll = NoPoll /\ sess = NoSess /\ cup = NoCup
  /\ rate = NoRate /\ ui = NoUi
  /\ \E c \in {0} \cup OAuthStates :
       oauth = [NoOAuth EXCEPT !.pc = "open", !.at = "login",
                               !.stateCookie = c]

\* login/page.tsx 40-60: checkAuth; without a user the page goes to
\* /api/auth/discord
OAuthLoginPage ==
  /\ oauth.at = "login"
  /\ oauth' = [oauth EXCEPT !.at = IF oauth.session # 0 THEN "app" ELSE "start"]
  /\ UNCHANGED <<core, mpf, poll, sess, cup, rate, ui>>

\* auth/discord/route.ts 3-14: redirect to Discord; the URL has no state
\* parameter and the response sets no cookie
OAuthStart ==
  /\ oauth.at = "start"
  /\ oauth' = [oauth EXCEPT !.at = "provider", !.failed = FALSE]
  /\ UNCHANGED <<core, mpf, poll, sess, cup, rate, ui>>

\* the user authorizes; Discord redirects to the callback with a valid code
\* and the state it was given, which is none
OAuthAuthorize ==
  /\ oauth.at = "provider"
  /\ oauth' = [oauth EXCEPT !.at = "callback",
                            !.params = [code |-> "good", state |-> 0,
                                        error |-> FALSE, genuine |-> TRUE]]
  /\ UNCHANGED <<core, mpf, poll, sess, cup, rate, ui>>

\* the browser opens a callback URL that did not come from this flow
OAuthCrafted(q) ==
  /\ oauth.at \in {"login", "app", "error"}
  /\ oauth' = [oauth EXCEPT !.at = "callback", !.params = q, !.failed = FALSE]
  /\ UNCHANGED <<core, mpf, poll, sess, cup, rate, ui>>

\* callback/route.ts 120-161: up to the token request
CallbackEnter ==
  /\ oauth.at = "callback"
  /\ oauth.hpc = "none"
  /\ LET q == oauth.params
         back == [oauth EXCEPT !.at = "login", !.stateCookie = 0,
                               !.last = "redirect", !.lastCleared = TRUE]
     IN
     IF q.error \/ q.code = "" THEN oauth' = back
     ELSE IF ~stateCheckPasses(oauth.stateCookie, q.state) THEN oauth' = back
     ELSE /\ oauth.accepted[q.state] < MaxAccepted
          /\ oauth' = [oauth EXCEPT !.hpc = "token",
                                    !.accepted[q.state] = @ + 1]
  /\ UNCHANGED <<core, mpf, poll, sess, cup, rate, ui>>

\* callback/route.ts 172-187: the token request has ended
CallbackToken(out) ==
  /\ oauth.hpc = "token"
  /\ oauth' =
       IF out = "ok" THEN [oauth EXCEPT !.hpc = "profile"]
       ELSE IF out = "fail"
         THEN [oauth EXCEPT !.hpc = "none", !.at = "login", !.session = 0,
                            !.stateCookie = 0, !.failed = TRUE,
                            !.last = "redirect", !.lastCleared = TRUE]
         ELSE [oauth EXCEPT !.hpc = "none", !.at = "error", !.failed = TRUE,
                            !.last = "error500", !.lastCleared = FALSE]
  /\ UNCHANGED <<core, mpf, poll, sess, cup, rate, ui>>

\* callback/route.ts 195-260: the profile request has ended
CallbackProfile(out, id) ==
  /\ oauth.hpc = "profile"
  /\ oauth' =
       IF out = "ok"
         THEN [oauth EXCEPT !.hpc = "none", !.at = "login", !.session = id,
                            !.stateCookie = 0,
                            !.last = "session", !.lastCleared = TRUE]
       ELSE IF out = "fail"
         THEN [oauth EXCEPT !.hpc = "none", !.at = "login", !.session = 0,
                            !.stateCookie = 0, !.failed = TRUE,
                            !.last = "redirect", !.lastCleared = TRUE]
         ELSE [oauth EXCEPT !.hpc = "none", !.at = "error", !.failed = TRUE,
                            !.last = "error500", !.lastCleared = FALSE]
  /\ UNCHANGED <<core, mpf, poll, sess, cup, rate, ui>>

\* the user leaves the error page for /login
OAuthLeaveError ==
  /\ oauth.at = "error"
  /\ oauth' = [oauth EXCEPT !.at = "login"]
  /\ UNCHANGED <<core, mpf, poll, sess, cup, rate, ui>>

NextOAuth ==
  \/ OAuthLoginPage
  \/ OAuthStart
  \/ OAuthAuthorize
  \/ \E q \in ({ [code |-> c, state |-> st, error |-> e, genuine |-> FALSE] : c \in {"",
          "good"}, st \in {0} \cup OAuthStates, e \in BOOLEAN }) : OAuthCrafted(q)
  \/ CallbackEnter
  \/ \E out \in ({"ok", "fail", "throw"}) : CallbackToken(out)
  \/ \E out \in ({"ok", "fail", "throw"}), id \in DiscordIds : CallbackProfile(out, id)
  \/ OAuthLeaveError

SpecOAuth == InitOAuth /\ [][NextOAuth]_vars

\* the browser follows redirects and the handler runs to its end
SpecOAuthFair == SpecOAuth /\ WF_vars(NextOAuth)

(***************************************************************************)
(* The checkout component: status, card submission, re-pricing             *)
(***************************************************************************)

\* pay.tsx 3195: localFinalStatus ?? liveStatus
effectiveStatus(u) ==
  IF u.localFinalStatus # "" THEN u.localFinalStatus ELSE u.liveStatus

\* pay.tsx 3204-3207
uiLocked(u) == effectiveStatus(u) = "approved"

\* the component is opened; GET /api/pagment/dev has told whether the user
\* has the dev permission
InitUi ==
  /\ CoreIdle
  /\ mpf = NoFetch /\ poll = NoPoll /\ sess = NoSess /\ cup = NoCup
  /\ rate = NoRate /\ oauth = NoOAuth
  /\ \E d \in BOOLEAN : ui = [NoUi EXCEPT !.pc = "open", !.devAllowed = d]

\* a payment tab is chosen
UiSelectMethod(m) ==
  /\ ui.pc = "open"
  /\ ~uiLocked(ui)
  /\ ui.method # m
  /\ ui' = [ui EXCEPT !.method = m]
  /\ UNCHANGED <<core, mpf, poll, sess, cup, rate, oauth>>

\* handlePrimaryAction, Pix: createPayment sends no order_id and no
\* revision, the server answers revision 0 and the payment; polling starts
UiPixCreate ==
  /\ ui.pc = "open"
  /\ ~uiLocked(ui)
  /\ ui.method = "pix"
  /\ ui.pixStep = "form"
  /\ ui' = [ui EXCEPT !.pixStep = "qr", !.pixPaymentId = 1,
                      !.orderRevision = normalizeRevision(NaN),
                      !.liveStatus = "", !.actionState = "success"]
  /\ UNCHANGED <<core, mpf, poll, sess, cup, rate, oauth>>

\* a coupon is applied or removed (validateCoupon, startCouponEditSmart):
\* refreshPixWithCoupon up to its fetch
UiCouponChange ==
  /\ ui.pc = "open"
  /\ ~uiLocked(ui)
  /\ ui.method = "pix"
  /\ ui.pixStep = "qr"
  /\ ui.pixPaymentId # 0
  /\ ui.liveStatus # "approved"
  /\ Len(ui.sent) < MaxRefresh
  /\ LET nextRevision == ui.orderRevision + 1 IN
     ui' = [ui EXCEPT !.actionState = "loading",
                      !.sent = Append(@, nextRevision),
                      !.inflight = @ \cup {Len(ui.sent) + 1}]
  /\ UNCHANGED <<core, mpf, poll, sess, cup, rate, oauth>>

\* refreshPixWithCoupon after its fetch: the i-th re-price request is
\* answered, with the new payment or with an error
UiRefreshResponse(i, ok) ==
  /\ ui.pc = "open"
  /\ i \in ui.inflight
  /\ ui' = IF ok
             THEN [ui EXCEPT !.inflight = @ \ {i},
                             !.pixPaymentId = i + 1,
                             !.orderRevision = normalizeRevision(ui.sent[i]),
                             !.liveStatus = "",
                             !.actionState = "success"]
             ELSE [ui EXCEPT !.inflight = @ \ {i}, !.actionState = "error"]
  /\ UNCHANGED <<core, mpf, poll, sess, cup, rate, oauth>>

\* handlePrimaryAction, card: the POST is answered (the server answers 422)
\* or the fetch rejects
UiCardSubmit(answered) ==
  /\ ui.pc = "open"
  /\ ~uiLocked(ui)
  /\ ui.method = "card"
  /\ ui' = IF answered
             THEN [ui EXCEPT !.localFinalStatus = "approved",
                             !.actionState = "idle"]
             ELSE [ui EXCEPT !.actionState = "error"]
  /\ UNCHANGED <<core, mpf, poll, sess, cup, rate, oauth>>

\* the poll of the current payment is answered with status st
UiPoll(st) ==
  /\ ui.pc = "open"
  /\ ui.pixPaymentId # 0
  /\ ui.liveStatus # "approved"
  /\ ui' = [ui EXCEPT !.liveStatus = st,
                      !.srvApproved = @ \/ st = "approved",
                      !.actionState = IF st = "approved" THEN "success" ELSE @]
  /\ UNCHANGED <<core, mpf, poll, sess, cup, rate, oauth>>

\* runDevAction("approve") of the dev menu, shown only with the permission
UiDevApprove ==
  /\ ui.pc = "open"
  /\ ui.devAllowed
  /\ ui.liveStatus # "approved"
  /\ ui' = [ui EXCEPT !.liveStatus = "approved", !.actionState = "success"]
  /\ UNCHANGED <<core, mpf, poll, sess, cup, rate, oauth>>

NextUi ==
  \/ \E m \in ({"pix", "card"}) : UiSelectMethod(m)
  \/ UiPixCreate
  \/ UiCouponChange
  \/ \E i \in 1..MaxRefresh, ok \in BOOLEAN : UiRefreshResponse(i, ok)
  \/ \E answered \in BOOLEAN : UiCardSubmit(answered)
  \/ \E st \in ({"pending", "approved"}) : UiPoll(st)
  \/ UiDevApprove

SpecUi == InitUi /\ [][NextUi]_vars

(***************************************************************************)
(* Properties                                                              *)
(***************************************************************************)
\* non-terminal payment states of the payment lifecycle
NonTerminal == {"pending", "in_process", "authorized", "in_mediation"}
\* terminal payment states of the payment lifecycle
Terminal == {"approved", "rejected", "cancelled", "expired"}

ExtRefOf(r) == <<r.order_id, r.revision>>

\* C1: a request that finds, within the TTL, an intent registered under its
\* (order_id, revision, method) with its pricing fingerprint, and for which
\* the gateway reports that payment as non-final, is answered with that
\* payment's id and deduped:true, and sends no gateway create call.
C1_SequentialDedup ==
  [][\A h \in Handlers :
       (/\ reqs[h].pc = "local"
        /\ reqs'[h].pc # "local"
        /\ reqs'[h].answer \in NonTerminal)
       => /\ reqs'[h].pc = "done"
          /\ reqs'[h].resp.ok /\ reqs'[h].resp.deduped
          /\ reqs'[h].resp.id = reqs[h].intentPid
          /\ reqs[h].intentPid \in PaymentIds
          /\ payments[reqs[h].intentPid].fingerprint = reqs[h].fingerprint
          /\ ~reqs'[h].createSent
          /\ payments' = payments]_vars

\* C1 witness: a second request was answered from the local intent with the
\* payment an earlier request created
C1_Witness ==
  \E h \in Handlers :
    /\ reqs[h].pc = "done"
    /\ reqs[h].resp.via = "local"
    /\ reqs[h].resp.deduped
    /\ reqs[h].resp.id \in PaymentIds
    /\ payments[reqs[h].resp.id].body = reqs[h].body
    /\ nreq >= 2

\* the per-method minimum in cents as configured: the configured amount, 1.00
\* when it is not a number, and never less than one cent
ConfiguredMinCents(method) ==
  LET v == CASE method = "pix" -> cfg.minPix
             [] method = "boleto" -> cfg.minBoleto
             [] OTHER -> DEFAULT_MIN_AMOUNT
  IN IF v = NaN THEN 100 ELSE IF v < 10 THEN 1 ELSE (v + 5) \div 10

QuoteCents(v) == v \div 10

Quoted == quote # NoQuote /\ quote.pricing.ok

\* C5: the amount submitted to the gateway is never below the per-method
\* minimum (1.00 by default, never below one cent), whatever coupon applies;
\* the test coupon DEVS (target 0.01) on pix still evaluates to one cent and
\* is then raised to the pix minimum.
C5_MinimumFloor ==
  Quoted =>
    /\ quote.transaction_amount = QuoteCents(quote.transaction_amount) * 10
    /\ QuoteCents(quote.transaction_amount) >= ConfiguredMinCents(quote.method)
    /\ ConfiguredMinCents(quote.method) >= 1
    /\ (quote.method = "pix" /\ quote.pricing.coupon \in {"DEVS", " devs "}
          /\ quote.pricing.type = "target_total" /\ cfg.testCoupon)
       => /\ quote.pricing.couponFinalCents = 1
          /\ QuoteCents(quote.transaction_amount) = ConfiguredMinCents("pix")

\* C5 witness: DEVS on pix under the default minimum is charged 1.00
C5_Witness ==
  /\ Quoted
  /\ quote.method = "pix"
  /\ quote.pricing.coupon \in {"DEVS", " devs "}
  /\ cfg.testCoupon
  /\ cfg.minPix = DEFAULT_MIN_AMOUNT
  /\ quote.pricing.couponFinalCents = 1
  /\ quote.transaction_amount = 1000

\* C6 as stated: the final total is at least one cent and at most the base
\* price, and the reported discount is base minus total, between 0 and base.
C6_Original ==
  Quoted =>
    LET base == QuoteCents(quote.pricing.base)
        total == QuoteCents(quote.pricing.total)
        discount == QuoteCents(quote.pricing.discount)
    IN /\ total >= 1
       /\ total <= base
       /\ discount = base - total
       /\ discount >= 0 /\ discount <= base

\* C6: the final total is at least one cent and at most the larger of the
\* base price and the per-method minimum; the reported discount is base minus
\* total when that is not negative and 0 otherwise, so it lies between 0 and
\* base; when the minimum does not exceed the base price the total does not
\* exceed the base price either.
C6_TotalAndDiscount ==
  Quoted =>
    LET base == QuoteCents(quote.pricing.base)
        total == QuoteCents(quote.pricing.total)
        discount == QuoteCents(quote.pricing.discount)
        min == ConfiguredMinCents(quote.method)
    IN /\ total >= 1
       /\ total <= Max(base, min)
       /\ (min <= base => total <= base)
       /\ discount = Max(0, base - total)
       /\ discount >= 0 /\ discount <= base

\* C6 witness: a configured minimum above the base price lifts the total
\* over the base price and the discount is reported as 0
C6_Witness ==
  /\ Quoted
  /\ ConfiguredMinCents(quote.method) > QuoteCents(quote.pricing.base)
  /\ quote.pricing.total > quote.pricing.base
  /\ quote.pricing.discount = 0
  /\ quote.pricing.coupon # ""

\* the gateway payments carrying the external_reference of request r
UnderRef(r) ==
  {p \in PaymentIds : payments[p].external_reference = ExtRefOf(r)}

\* C2 as stated: of two identical requests arriving together, the one that
\* finishes when the other's payment already exists is answered deduped:true
\* with that payment's id, even when it passed the local check and a
\* successful gateway search before that payment existed.
C2_Original ==
  \A h \in Handlers :
    LET r == reqs[h] IN
    (/\ r.pc = "done" /\ r.resp.ok
     /\ r.body.order_id > 0
     /\ now = 0
     /\ r.intentPid = 0 /\ r.answer = "ok"
     /\ \E p \in PaymentIds : payments[p].body = r.body /\ ~r.createdNew)
    => r.resp.deduped

\* C2: requests with identical bodies naming an order_id never leave two
\* gateway payments, because they carry one idempotency key that the gateway
\* honours; when no other body was used for that order and revision, a
\* successful call returns the single payment's id, and it carries
\* deduped:true exactly when it sent no create call (the payment was found
\* through the local intent or the gateway search).
C2_ConcurrentDedup ==
  /\ \A p, q \in PaymentIds :
       (payments[p].body = payments[q].body /\ payments[p].body.order_id > 0)
       => p = q
  /\ \A h \in Handlers :
       LET r == reqs[h] IN
       (/\ r.pc = "done" /\ r.resp.ok
        /\ r.body.order_id > 0
        /\ \A p \in UnderRef(r) : payments[p].body = r.body)
       => /\ Cardinality(UnderRef(r)) = 1
          /\ r.resp.id \in UnderRef(r)
          /\ r.resp.deduped <=> ~r.createSent

\* C2 witness: a handler that passed the local check and a successful search
\* sent its create call after the other handler's and got that payment back
C2_Witness ==
  \E h \in Handlers :
    /\ reqs[h].pc = "done" /\ reqs[h].resp.ok
    /\ reqs[h].body.order_id > 0
    /\ reqs[h].intentPid = 0 /\ reqs[h].answer = "ok"
    /\ reqs[h].createSent /\ ~reqs[h].createdNew
    /\ ~reqs[h].resp.deduped
    /\ payments[reqs[h].resp.id].body = reqs[h].body

\* C3: two create calls made for identical request bodies carry the same
\* idempotency key, whether or not the body names order_id and revision.
C3_SameIdempotencyKey ==
  \A h \in Handlers : \A p \in PaymentIds :
    (/\ reqs[h].pc = "done" /\ reqs[h].createSent /\ reqs[h].resp.ok
     /\ payments[p].body = reqs[h].body)
    => payments[p].idemKey = reqs[h].idemKey

\* C4: a call with cancel_previous=true that names a payment the gateway
\* holds as approved sends no cancel request for it and reports the
\* cancellation as skipped, whatever the status lookups answer.
C4_ApprovedNeverCancelled ==
  \A h \in Handlers :
    LET r == reqs[h] IN
    (r.cancel_previous /\ r.statusAtStart = "approved")
    => /\ ~r.cancelSent
       /\ (r.pc = "done" /\ r.resp.via = "created")
          => r.resp.cancelInfo.skipped

\* C7 as stated: all gateway payments under one external_reference carry the
\* same pricing fingerprint.
C7_Original ==
  \A p, q \in PaymentIds :
    payments[p].external_reference = payments[q].external_reference
    => payments[p].fingerprint = payments[q].fingerprint

\* C7: a successful call never returns, deduped or created, a payment that
\* carries another pricing fingerprint or external_reference than the
\* request's; a request whose price changed under an unchanged revision gets
\* a payment of its own under the same external_reference.
C7_FingerprintBinding ==
  \A h \in Handlers :
    LET r == reqs[h] IN
    (r.pc = "done" /\ r.resp.ok)
    => /\ r.resp.id \in PaymentIds
       /\ payments[r.resp.id].fingerprint = r.fingerprint
       /\ payments[r.resp.id].external_reference = ExtRefOf(r)

\* C7 witness: a request created a payment beside one of another
\* fingerprint under the same external_reference
C7_Witness ==
  \E h \in Handlers :
    /\ reqs[h].pc = "done" /\ reqs[h].resp.ok
    /\ reqs[h].createSent /\ reqs[h].createdNew
    /\ \E p \in UnderRef(reqs[h]) :
         /\ p # reqs[h].resp.id
         /\ payments[p].fingerprint # reqs[h].fingerprint
         /\ payments[p].status = "pending"

\* payment p can be reused by request r: not cancelled, in a non-terminal
\* state, of r's pricing fingerprint and payment method
Reusable(p, r) ==
  /\ p.status \in NonTerminal
  /\ p.fingerprint = r.fingerprint
  /\ p.payment_method_id = paymentMethodId(r.body.method)

\* C8: when the gateway search succeeds and its results hold a reusable
\* payment, the call returns a reusable payment with deduped:true and makes
\* no create call, whatever else the results hold and in whatever order.
C8_SearchDedup ==
  [][\A h \in Handlers :
       (/\ reqs[h].pc = "search"
        /\ reqs'[h].pc # "search"
        /\ reqs'[h].answer = "ok"
        /\ \E p \in UnderRef(reqs[h]) : Reusable(payments[p], reqs[h]))
       => /\ reqs'[h].pc = "done"
          /\ reqs'[h].resp.deduped
          /\ reqs'[h].resp.id \in UnderRef(reqs[h])
          /\ Reusable(payments[reqs'[h].resp.id], reqs[h])]_vars

\* C9: no call returns with deduped:true a payment whose status, as the
\* gateway reported it to that call, is approved, rejected, cancelled or
\* expired.
C9_NoTerminalDedup ==
  \A h \in Handlers :
    (reqs[h].pc = "done" /\ reqs[h].resp.deduped)
    => reqs[h].checked \notin Terminal

AppliedValue ==
  IF cfg.testCoupon /\ quote.pricing.coupon = TEST_COUPON_CODE
    THEN TEST_COUPON_TARGET_TOTAL
    ELSE cfg.rawCoupons[1].value

CouponApplied(type) ==
  Quoted /\ quote.pricing.coupon # "" /\ quote.pricing.type = type

\* C12: for every percent coupon, also above 100, and every base total,
\* evaluateCoupon returns 0 <= discountCents <= baseCents and
\* finalCents = baseCents - discountCents >= 1; pro, monthly, percent 50
\* gives discount 995 and final 995.
C12_PercentCoupon ==
  CouponApplied("percent") =>
    LET base == quote.pricing.baseCents
        final == quote.pricing.couponFinalCents
        discount == quote.pricing.couponDiscountCents
    IN /\ discount >= 0 /\ discount <= base
       /\ final = base - discount
       /\ final >= 1
       /\ (quote.plan = "pro" /\ quote.billing = "monthly" /\ AppliedValue = 50)
          => (discount = 995 /\ final = 995)

\* C12 witness: percent 50 on pro monthly
C12_Witness ==
  /\ CouponApplied("percent")
  /\ quote.plan = "pro" /\ quote.billing = "monthly" /\ AppliedValue = 50
  /\ quote.pricing.couponDiscountCents = 995
  /\ quote.pricing.couponFinalCents = 995

\* the target of a target_total coupon in cents
TargetCents == (AppliedValue + 5) \div 10

\* C13 as stated: a target_total coupon's finalCents is
\* min(baseCents, target in cents).
C13_Original ==
  CouponApplied("target_total") =>
    quote.pricing.couponFinalCents = Min(quote.pricing.baseCents, TargetCents)

\* C13: a target_total coupon's finalCents is min(baseCents, target in
\* cents), raised to one cent when the target rounds to zero cents; it never
\* exceeds baseCents.
C13_TargetTotal ==
  CouponApplied("target_total") =>
    /\ quote.pricing.couponFinalCents
         = Max(1, Min(quote.pricing.baseCents, TargetCents))
    /\ quote.pricing.couponFinalCents <= quote.pricing.baseCents

\* C13 witness: a target below half a cent is charged one cent
C13_Witness ==
  /\ CouponApplied("target_total")
  /\ AppliedValue > 0 /\ TargetCents = 0
  /\ quote.pricing.couponFinalCents = 1

C11_CancellationGuard ==
  \A h \in Handlers :
    LET r == reqs[h]
        pid == r.replace_payment_id
    IN
    (r.cancel_previous /\ pid \in PaymentIds /\ r.oldStatus # "")
    => LET allowed ==
             /\ r.oldStatus \in {"pending", "in_process", "authorized", "in_mediation"}
             /\ payments[pid].order_id = r.order_id
       IN /\ r.cancelSent => allowed
          /\ ~allowed => ~r.cancelSent
          /\ (~allowed /\ (r.pc # "done" \/ r.resp.ok))
             => /\ r.cancelInfo.present
                /\ r.cancelInfo.skipped
                /\ r.cancelInfo.oldStatus = r.oldStatus

\* C11 witness: a pending payment of another order is not cancelled
C11_Witness ==
  \E h \in Handlers :
    LET r == reqs[h] IN
    /\ r.pc = "done" /\ r.cancel_previous
    /\ r.replace_payment_id \in PaymentIds
    /\ r.oldStatus = "pending"
    /\ payments[r.replace_payment_id].order_id # r.order_id
    /\ payments[r.replace_payment_id].status = "pending"
    /\ ~r.cancelSent
    /\ r.resp.cancelInfo.skipped

\* C15: mpFetch returns, after at most retries+1 HTTP attempts; an attempt
\* after the first follows only a 429, a 5xx or a network/timeout error, and
\* any other non-OK response is returned at once.
C15_BoundedRetry ==
  /\ [](mpf.sent <= Max(0, mpf.retries + 1))
  /\ [][(mpf'.sent = mpf.sent + 1 /\ mpf.sent >= 1)
          => mpf.last \in {"r429", "r5xx", "neterr"}]_vars
  /\ [][(mpf'.sent = mpf.sent + 1 /\ mpf'.last = "client")
          => (mpf'.pc = "returned" /\ mpf'.result = "http_error")]_vars
  /\ <>(mpf.pc = "returned")

\* C15 witness: every attempt ended in a 429 and the last one is returned
C15_Witness ==
  /\ mpf.pc = "returned"
  /\ mpf.retries = 2
  /\ mpf.sent = 3
  /\ mpf.last = "r429"
  /\ mpf.result = "http_error"

\* C16: a poll request is issued only while the component is mounted and only
\* for a payment of which no poll response has reported approved, rejected,
\* cancelled or expired.
C16_PollingStops ==
  [][\A p \in PollIds :
       poll'.inflight[p] > poll.inflight[p]
         => (poll.mounted /\ p \notin poll.terminalSeen)]_vars

\* the request's cookies are no valid session: the signature cookie is not
\* the HMAC of the payload cookie, the payload is no JSON object, or its
\* expiry stamp is before the time of the request
SessInvalid(r) ==
  \/ r.rawSig # hmacSign(r.rawUser)
  \/ r.rawUser.shape # "object"
  \/ (IsFinite(r.rawUser.exp_ms) /\ r.rawUser.exp_ms < r.at)

\* C17: GET /api/me answers user:null and clears both session cookies when
\* the cookies it received are no valid session, and only the OAuth callback
\* (never another handler) writes a non-empty session cookie.
C17_SessionInvalidation ==
  /\ [](  (sess.resp.present /\ sess.resp.rawUser # NoPayload
             /\ SessInvalid(sess.resp))
          => (sess.resp.user = NoPayload /\ sess.resp.cleared))
  /\ [][(  (sess'.user # sess.user /\ sess'.user # NoPayload)
        \/ (sess'.sig # sess.sig /\ sess'.sig # NoSig))
         => sess'.last \in {"callback", "client"}]_vars

\* the gift row alone, read as the source reads it
GiftAlone(row, discordId, t) ==
  /\ row.active
  /\ discordId # 0 /\ row.owner = discordId
  /\ ~(row.starts_at_epoch # 0 /\ t < row.starts_at_epoch)
  /\ ~(row.expires_at_epoch # 0 /\ t > row.expires_at_epoch)
  /\ ~(row.max_uses # 0 /\ row.uses_count >= row.max_uses)

\* C18: when a gift_coupons row exists for the code, the verdict is the one
\* of that row alone and the coupons table is not read; the coupons table is
\* read, and is the source of a valid verdict, only when no gift row exists.
C18_GiftPrecedence ==
  LET r == cup.result IN
  (r.present /\ r.code # "" /\ r.ok) =>
    /\ cup.gift.present =>
         /\ "coupons" \notin r.consulted
         /\ r.valid = GiftAlone(cup.gift, r.discordId, cup.now)
         /\ r.valid => r.source = "gift_coupon"
    /\ ~cup.gift.present =>
         /\ "coupons" \in r.consulted
         /\ r.valid => r.source = "coupon"

\* C18 witness: an inactive gift row shadows a usable general coupon
C18_Witness ==
  /\ cup.result.present /\ cup.result.ok /\ cup.result.code # ""
  /\ cup.gift.present /\ ~cup.gift.active
  /\ cup.coupon.present /\ cup.coupon.active /\ cup.coupon.owner = 0
  /\ cup.coupon.starts_at_epoch = 0 /\ cup.coupon.expires_at_epoch = 0
  /\ cup.coupon.max_uses = 0
  /\ ~cup.result.valid

\* the user a signed session cookie identifies, 0 when the request has none
SessionUser(caller) == IF caller.signed THEN caller.cookieId ELSE 0

\* the owner of the row that decides for the code, 0 when it is not exclusive
ExclusiveOwner ==
  IF cup.gift.present THEN cup.gift.owner
  ELSE IF cup.coupon.present THEN cup.coupon.owner
  ELSE 0

\* C19: validation answers valid:true for an exclusive coupon (a gift coupon,
\* or a general coupon with exclusive_discord_id) only to a caller whose
\* session identifies the owner; a discord_id in the query string, the body
\* or an unsigned cookie does not count.
C19_Exclusivity ==
  (cup.result.present /\ cup.result.valid /\ ExclusiveOwner # 0)
    => SessionUser(cup.result.caller) = ExclusiveOwner

\* C20: for one code, the validation endpoint and the coupon step of
\* POST /api/pagment agree: valid means applied, invalid means not applied.
C20_PricingAgrees ==
  (cup.result.present /\ cup.result.ok /\ cup.result.code # ""
     /\ cup.pay.present)
    => (cup.result.valid <=> cup.pay.applied)

\* the two error classes the handler names
IsNoPixKey(err) == 13253 \in err.codes \/ err.msg = "without key enabled"
IsPolicyRejection(err) ==
  \/ (err.mpStatus = 403 /\ err.msg = "policy returned unauthorized")
  \/ err.msg \in {"blocked_by", "PolicyAgent"}

\* C21: a failed gateway create is answered 422 for a missing Pix key, 403
\* for a policy rejection and 500 with ok:false for every other error, and
\* the failing request registers no intent.
C21_CreateErrorClasses ==
  /\ [](\A h \in Handlers :
          (reqs[h].pc = "done" /\ reqs[h].resp.via = "create_error") =>
             LET e == reqs[h].createError IN
             /\ ~reqs[h].resp.ok
             /\ reqs[h].resp.http =
                  IF IsNoPixKey(e) THEN 422
                  ELSE IF IsPolicyRejection(e) THEN 403
                  ELSE 500)
  /\ [][\A h \in Handlers :
          (reqs[h].pc = "create" /\ reqs'[h].pc = "done"
             /\ reqs'[h].resp.via = "create_error")
            => intentStore' = intentStore]_vars

\* C22: per (kind, IP) key the stored count never exceeds max (at least 5
\* for POST, 10 for GET); a request inside a window whose count has reached
\* max is answered 429 with a positive retry_after_sec and changes nothing;
\* the first request after resetAt is admitted and restarts the count at 1.
C22_RateLimit ==
  /\ [](\A k \in ({ <<"POST", "10.0.0.1">>, <<"GET", "unknown">> }) :
          /\ rate.store[k].count <= rateMax(k[1], rate.maxPostCfg)
          /\ (k[1] = "POST" => rateMax(k[1], rate.maxPostCfg) >= 5)
          /\ (k[1] = "GET" => rateMax(k[1], rate.maxPostCfg) >= 10))
  /\ [](LET a == rate.answer
            max == rateMax(a.kind, rate.maxPostCfg)
        IN a.present =>
             /\ (a.before # NoRateEntry /\ a.at <= a.before.resetAt
                   /\ a.before.count >= max)
                  => /\ a.http = 429 /\ ~a.ok
                     /\ a.retryAfterSec > 0
                     /\ rate.store[<<a.kind, a.ip>>] = a.before
             /\ (a.before = NoRateEntry \/ a.at > a.before.resetAt)
                  => /\ a.ok
                     /\ rate.store[<<a.kind, a.ip>>].count = 1)

\* the intent key of the request handler h has just read intentStore for
ReadKey(rec) ==
  makeIntentKey(rec.order_id, rec.revision, normalizeMethod(rec.body.method))

\* C23: getIntent returns no intent older than max(10,
\* INTENT_DEDUPE_TTL_SECONDS) seconds: the read deletes it and the request
\* does not take the local dedup path; a younger entry is left unchanged by
\* the read, and a local dedup hit leaves intentStore unchanged.
C23_LazyTtl ==
  [][\A h \in Handlers :
       /\ (reqs[h].pc = "idle" /\ reqs'[h].pc \in {"local", "search"}
             /\ ReadKey(reqs'[h]) \in DOMAIN intentStore)
            => LET k == ReadKey(reqs'[h])
                   age == now - intentStore[k].createdAt
               IN IF age > Max(10, INTENT_DEDUPE_TTL_SECONDS) * 1000
                    THEN /\ k \notin DOMAIN intentStore'
                         /\ reqs'[h].pc = "search"
                    ELSE intentStore' = intentStore
       /\ (reqs[h].pc = "local" /\ reqs'[h].pc = "done"
             /\ reqs'[h].resp.via = "local")
            => intentStore' = intentStore]_vars

\* C23 witness: a request for the key of a payment created before the clock
\* advanced past the TTL has read intentStore, the entry is gone and the
\* handler is on the gateway search path
C23_Witness ==
  \E h \in Handlers, p \in PaymentIds :
    /\ reqs[h].pc = "search"
    /\ now > Max(10, INTENT_DEDUPE_TTL_SECONDS) * 1000
    /\ payments[p].external_reference = <<reqs[h].order_id, reqs[h].revision>>
    /\ payments[p].fingerprint = reqs[h].fingerprint
    /\ ReadKey(reqs[h]) \notin DOMAIN intentStore

\* C24: the callback sets the session cookies only for a request whose state
\* is non-empty and equal to the stored discord_oauth_state and whose token
\* exchange and profile fetch succeeded; every callback response clears
\* discord_oauth_state; no state value passes the state check twice.
C24_CallbackSession ==
  /\ [][(oauth'.session # oauth.session /\ oauth'.session # 0)
          => /\ oauth.hpc = "profile"
             /\ oauth.params.state # 0
             /\ oauth.accepted[oauth.params.state] >= 1
             /\ ~oauth.failed]_vars
  /\ [][(oauth.at = "callback" /\ oauth'.at # "callback")
          => (oauth'.lastCleared /\ oauth'.stateCookie = 0)]_vars
  /\ [](\A v \in OAuthStates : oauth.accepted[v] <= 1)

\* C30: a login that starts at GET /api/auth/discord, is authorized, and
\* comes back to the callback with a valid code eventually has the session
\* cookies set, unless the token exchange or the profile fetch fails.
C30_LoginCompletes ==
  (oauth.at = "callback" /\ oauth.params.genuine /\ oauth.params.code = "good")
    ~> (oauth.session # 0 \/ oauth.failed)

\* C29: with the session secret configured, GET /api/me answers a non-null
\* user only when the discord_user cookie it received came with a
\* discord_user_sig equal to the HMAC of that cookie; a payload without
\* signature is answered with user:null.
C29_SignedSessionOnly ==
  [](  (sess.resp.present /\ sess.resp.user # NoPayload)
       => (sess.resp.rawSig # NoSig
           /\ sess.resp.rawSig = hmacSign(sess.resp.rawUser)))

\* C26: the answer to a poll of a superseded payment (one that is not the
\* payment the running interval polls) changes neither the displayed live
\* status nor the running interval.
C26_StaleResponseIgnored ==
  [][\A p \in PollIds :
       (poll.inflight[p] > poll'.inflight[p]
          /\ poll.interval # 0 /\ p # poll.interval)
         => (poll'.liveStatus = poll.liveStatus
             /\ poll'.interval = poll.interval)]_vars

\* C27: a request whose create of the replacement failed has not cancelled
\* the payment named by its replace_payment_id.
C27_CancelOnlyWithReplacement ==
  [][\A h \in Handlers :
       (reqs[h].pc = "create" /\ reqs'[h].pc = "done"
          /\ reqs'[h].resp.via = "create_error")
         => ~(reqs[h].cancelSent /\ reqs[h].cancelInfo.present
              /\ reqs[h].cancelInfo.ok /\ ~reqs[h].cancelInfo.skipped)]_vars

\* C25: every re-price request the checkout component sends for an order
\* carries a revision strictly greater than the revision of every re-price
\* request it sent before.
C25_RevisionMonotonic ==
  \A i, j \in 1..Len(ui.sent) : i < j => ui.sent[i] < ui.sent[j]

\* C28: for a user without dev permission the effective status is approved
\* only after the server reported a payment with status approved; a card
\* submission does not lead there.
C28_ApprovedOnlyByServer ==
  (~ui.devAllowed /\ effectiveStatus(ui) = "approved") => ui.srvApproved

====
